---------------------------- MODULE Spec2Model ----------------------------
(***************************************************************************)
(* Live chart reconciliation engine of the trading dashboard.              *)
(*                                                                         *)
(* The repository holds several drafts of the chart component, of the      *)
(* dashboard page and of the market-data hook.  The model has one group of *)
(* variables and one specification per concern:                            *)
(*                                                                         *)
(*   SpecReconcile  the indicator effects of the chart drafts; the         *)
(*                  variable draft says which draft is mounted             *)
(*   SpecMerge      historical load and real-time update of the candle     *)
(*                  series (unnamed/part_002 with unnamed/part_011)        *)
(*   SpecHook       the market-data hook (unnamed/part_017) and the page   *)
(*                  that seeds it (unnamed/part_013)                       *)
(*   SpecSync       the viewport synchronisation of the two panes          *)
(*                  (frontend/src/components/KlineChart.tsx)               *)
(*                                                                         *)
(* The drawing surface (lightweight-charts) is modelled by what its API    *)
(* does to the set of live series, their points and their price lines.     *)
(***************************************************************************)
EXTENDS Integers, Sequences, FiniteSets, TLC

Null == <<>>

(* A new handle <<name, n>>: a new JS object is never identical to a       *)
(* handle that is still live or still referenced anywhere.                 *)
FreshId(name, used) ==
    LET n == CHOOSE n \in 1..(Cardinality(used) + 1) :
                 <<name, n>> \notin used
                 /\ \A m \in 1..(n - 1) : <<name, m>> \in used
    IN <<name, n>>

Range(f) == {f[x] : x \in DOMAIN f}

Without(f, x) == [y \in (DOMAIN f) \ {x} |-> f[y]]

(* Sequential composition: the value of e is computed once and handed to F. *)
Then(e, F(_)) == CHOOSE y \in {F(x) : x \in {e}} : TRUE

(***************************************************************************)
(* Bounds of the model.                                                    *)
(***************************************************************************)
MaxCandles == 2

(***************************************************************************)
(* The state.                                                              *)
(***************************************************************************)
(* The charts of the component drafts (RECONCILE) *)
VARIABLES
    draft,          \* which draft of the component is mounted
    mounted,        \* the first render has run its effects
    data,           \* prop data: sequence of candles; a candle is the set of
                    \* indicator fields that carry a value on it
    show,           \* the show* props (registry: the family is in the payload)
    chart,          \* live series of the chart: handle -> series record
    seriesRef,      \* the series refs (.current), by series title or key
    lineRef,        \* the price-line refs (.current)
    ops,            \* drawing-surface calls made by the last render, in order
    scaleVisible,   \* leftPriceScale.visible, rightPriceScale.visible
    trail,          \* what the last renders were caused by
    unmounted       \* the component has been unmounted: its cleanups have run

surfaceVars ==
    <<draft, mounted, data, show, chart, seriesRef, lineRef, ops, scaleVisible, trail,
      unmounted>>

(* The candle series of the page with real-time updates (MERGE) *)
VARIABLES
    mSeries,        \* the candles of the candlestick series, as drawn
    mHistorical,    \* state historicalData: the klines of the last response
    mLastUpdate,    \* state lastCandleWebSocketUpdate (Null or a candle)
    mLoading,       \* loadHistoricalData is awaiting fetchMarketKlines
    mDataDue,       \* the effect on [data] is due at the next render
    mUpdateDue,     \* the effect on [lastCandleUpdate] is due at the next render
    mError,         \* an effect threw: the component tree is gone
    mLatest,        \* time -> payload of the last update applied at that time
                    \* since the last setData (0 if none)
    mOverwritten    \* times at which an update replaced the last candle

mergeVars ==
    <<mSeries, mHistorical, mLastUpdate, mLoading, mDataDue, mUpdateDue, mError,
      mLatest, mOverwritten>>

(* The market-data hook and its page (HOOK) *)
VARIABLES
    hKlines,        \* marketData.klines
    hChartKlines,   \* state chartKlines of the page: the klines prop of the chart
    hWs,            \* webSocketRef.current: "none", "connecting" or "open"
    hIsConnected,   \* marketData.isConnected
    hIsConnecting,  \* marketData.isConnecting
    hIsPolling,     \* marketData.isPolling
    hSelected,      \* selectedSymbol / selectedInterval of the page
    hFetching,      \* per selection: calls of fetchAndSetInitialData awaiting
                    \* their response
    hPageDue,       \* the page effect on the hook's values is due
    hLastFed,       \* the klines of the last payload fed to the hook
    hPollTimer,     \* pollingIntervalRef.current holds an interval
    hPollSees,      \* marketData.isPolling as the pollData of the interval
                    \* closed over it
    hConnSees,      \* marketData.isPolling as the pollData reached from the
                    \* handlers of the socket closed over it
    hEffectSaw,     \* marketData.isPolling of the render whose
                    \* connectWebSocket the effect of lines 184-217 last ran
    hPolled         \* the last poll tick: "none", "noop" or "fetched"

pollVars == <<hPollTimer, hPollSees, hConnSees, hEffectSaw, hPolled>>

VARIABLES
    hOld,           \* the socket the cleanup last dropped: "closing" while it
                    \* can still fire events, "none" otherwise
    hOldHandlers,   \* the handlers that socket still carries
    hOldEvents      \* the events that socket has fired since it was dropped
                    \* (not in the source)

oldVars == <<hOld, hOldHandlers, hOldEvents>>

hookVars ==
    <<hKlines, hChartKlines, hWs, hIsConnected, hIsConnecting, hIsPolling,
      hSelected, hFetching, hPageDue, hLastFed, pollVars, oldVars>>

(* The two panes and their synchronisation (SYNC) *)
VARIABLES
    yDraft,         \* "plain" (first draft) or "guarded" (second draft)
    yRange,         \* the visible logical range of each pane
    yTimer,         \* the pending timeout of each pane's debounced handler:
                    \* <<>> or <<[left, range, echo, fit]>>
    ySyncLock,      \* syncLock.current
    yUnlock,        \* pending setTimeout(() => syncLock.current = false, 0)
    yUser,          \* user range changes so far
    yFired,         \* per pane: ranges its handler applied since the last
                    \* change of a range by the user or by fitContent
    yLast,          \* the last run of a handler
    yBounce         \* a handler run for an event that a handler caused has
                    \* changed the range of a pane

(* The page that joins klines and indicator values (JOIN) *)
VARIABLES
    jResponse,      \* the last response of getHistoricalIndicators
    jMarketData,    \* state marketData: the candles handed to the chart
    jChartError     \* state chartError is set

joinVars == <<jResponse, jMarketData, jChartError>>

(* The values that reach setData (FORMAT) *)
VARIABLES
    fIndicators,    \* prop indicators of the chart of part_000: timestamps
                    \* and one value array
    fSeriesData,    \* the points that chart last handed to setData
    fData,          \* prop data of the chart of KlineChart.tsx
    fRsiData        \* the points that chart last handed to the RSI series

formatVars == <<fIndicators, fSeriesData, fData, fRsiData>>

(* The series of the MACD and Bollinger groups of part_000 (GROUPS) *)
VARIABLES
    gIndicators,    \* prop indicators: timestamps and the arrays of the two
                    \* groups
    gSeriesRefs     \* the keys of indicatorSeriesRefs.current

groupVars == <<gIndicators, gSeriesRefs>>

(* The response interceptors of the axios instances (AUTH) *)
VARIABLES
    aDraft,         \* which of the three axiosInstance modules is loaded
    aAccessToken,   \* localStorage 'accessToken': "none", "old" or "fresh"
    aRefreshToken,  \* localStorage 'refreshToken' is present
    aRequests       \* the requests made through axiosInstance: the config
                    \* (url, _retry), where the request stands, and how many
                    \* refresh calls and replays were made for it

authVars == <<aDraft, aAccessToken, aRefreshToken, aRequests>>

VARIABLES
    wPair,          \* pairSymbol, the prop of the hook of part_018
    wSockets,       \* the WebSocket objects created so far: pair and readyState
    wRef,           \* webSocketRef.current: index into wSockets, 0 for null
    wTimers,        \* per pair: pending setTimeout(connectWebSocket) of the
                    \* connectWebSocket that closes over that pair
    wAttempts,      \* reconnectAttemptsRef.current
    wData,          \* marketData: the symbol of the message and its klines
    wIsConnected,   \* isConnected
    wError,         \* state error: "none" for null, "connection" for the
                    \* message of onerror, "reconnect" for the message of
                    \* onclose when the attempts are used up
    wSinceOpen      \* the reconnects scheduled since the hook was mounted
                    \* or a socket last opened (not in the source)

socketVars ==
    <<wPair, wSockets, wRef, wTimers, wAttempts, wData, wIsConnected, wError,
      wSinceOpen>>

syncVars ==
    <<yDraft, yRange, yTimer, ySyncLock, yUnlock, yUser, yFired, yLast, yBounce>>

(***************************************************************************)
(*                 RECONCILE: the indicator effects of the drafts          *)
(*                                                                         *)
(*   "pane"      KlineChart.tsx second draft, indicator effect 899-1041    *)
(*   "first"     KlineChart.tsx first draft, indicator effect 310-394      *)
(*   "main"      KlineChart.tsx second draft, main effect 747-895          *)
(*   "registry"  unnamed/part_000, indicator block 125-287                 *)
(*   "firstmain" KlineChart.tsx first draft, main effect 250-307           *)
(*   "mount"     unnamed/part_001, mount effect 91-270 and data effects    *)
(***************************************************************************)
Drafts == {"pane", "first", "firstmain", "main", "registry", "mount"}

DraftFields(d) ==
    CASE d = "pane" -> {"macd", "rsi", "adx", "atr"}
      [] d = "first" -> {"macd", "rsi"}
      [] d = "main" -> {"ma", "ema", "fib"}
      [] d = "firstmain" -> {"ma", "ema"}
      [] d = "registry" -> {"ema", "rsi"}
      [] d = "mount" -> {"rsi", "ema200"}

(* The series of a family: the title option, or the registry key. *)
FamilyKeys(d, f) ==
    CASE f = "macd" -> {"MACD", "Signal", "Histogram"}
      [] f = "rsi" -> IF d = "registry" THEN {"rsi_rsi_14"} ELSE {"RSI"}
      [] f = "adx" -> {"ADX"}
      [] f = "atr" -> {"ATR"}
      [] f = "ma" -> {"MA"}
      [] f = "ema" -> IF d = "registry" THEN {"ema_200"} ELSE {"EMA"}
      [] f = "ema200" -> {"EMA 200"}
      [] f = "fib" -> {}

(* The refs of a draft: its families' series and, in the main effect of    *)
(* the second draft, candlestickSeriesRef, which carries the Fibonacci     *)
(* lines.                                                                  *)
DraftKeys(d) ==
    UNION {FamilyKeys(d, f) : f \in DraftFields(d)}
        \cup (IF d = "main" THEN {"Candles"} ELSE {})

(* The price lines of a series key, in the order the code handles them. *)
LinesOf(key) ==
    CASE key = "RSI" -> <<"rsiOverbought", "rsiOversold">>
      [] key = "rsi_rsi_14" -> <<"rsi_rsi_14_pl_70", "rsi_rsi_14_pl_30">>
      [] key = "Candles" -> <<"fibLevel1", "fibLevel2">>
      [] OTHER -> <<>>

DraftLines(d) ==
    IF d \in {"pane", "first"} THEN Range(LinesOf("RSI"))
    ELSE IF d = "registry" THEN Range(LinesOf("rsi_rsi_14"))
    ELSE IF d = "main" THEN Range(LinesOf("Candles"))
    ELSE {}

(* Default props; the registry starts from indicators = {timestamps: []}. *)
DefaultShow(d) ==
    [f \in DraftFields(d) |-> IF d = "registry" THEN FALSE
                              ELSE f \notin {"atr", "fib"}]

(* The payloads fed to the chart: up to MaxCandles candles, every candle of *)
(* one payload carrying the same indicator fields.                         *)
DataValues(d) ==
    {[i \in 1..n |-> F] : n \in 0..MaxCandles, F \in SUBSET DraftFields(d)}

(* data.some(dataCheck) *)
DataSome(candles, field) == \E i \in 1..Len(candles) : field \in candles[i]

(* data.filter(dataCheck).map(dataMap): the times of the points handed on; *)
(* formatLineData drops null and NaN the same way                          *)
RECURSIVE DataFilter(_, _, _)
DataFilter(candles, field, i) ==
    IF i > Len(candles) THEN <<>>
    ELSE (IF field \in candles[i] THEN <<i>> ELSE <<>>)
             \o DataFilter(candles, field, i + 1)

SurfaceOp(op, target) == [op |-> op, target |-> target]

(* chart.addLineSeries / chart.addHistogramSeries; ref.current = the handle *)
ChartAddSeries(st, key, kind, scale) ==
    LET id == FreshId(key, DOMAIN st.chart \cup (Range(st.sref) \ {Null}))
    IN [st EXCEPT
          !.chart = st.chart @@ (id :> [title |-> key, kind |-> kind,
                                        priceScaleId |-> scale, visible |-> TRUE,
                                        priceLines |-> {}, points |-> <<>>]),
          !.sref = [st.sref EXCEPT ![key] = id],
          !.ops = Append(st.ops, SurfaceOp(IF kind = "Histogram"
                                           THEN "addHistogramSeries"
                                           ELSE "addLineSeries", key))]

(* series.applyOptions({priceScaleId}) *)
SeriesApplyScale(st, key, scale) ==
    LET id == st.sref[key]
    IN [st EXCEPT
          !.chart = IF id \in DOMAIN st.chart
                    THEN [st.chart EXCEPT ![id].priceScaleId = scale]
                    ELSE st.chart,
          !.ops = Append(st.ops, SurfaceOp("applyOptions", key))]

(* series.applyOptions({visible}) *)
SeriesApplyVisible(st, key, visible) ==
    LET id == st.sref[key]
    IN [st EXCEPT
          !.chart = IF id \in DOMAIN st.chart
                    THEN [st.chart EXCEPT ![id].visible = visible]
                    ELSE st.chart,
          !.ops = Append(st.ops, SurfaceOp("applyOptions", key))]

(* series.setData(points) *)
SeriesSetData(st, key, points) ==
    LET id == st.sref[key]
    IN [st EXCEPT
          !.chart = IF id \in DOMAIN st.chart
                    THEN [st.chart EXCEPT ![id].points = points]
                    ELSE st.chart,
          !.ops = Append(st.ops, SurfaceOp("setData", key))]

(* chart.removeSeries(ref.current); ref.current = null                     *)
(* the surface drops the price lines of a series together with the series: *)
(* the log notes it when the series still carried price lines              *)
ChartRemoveSeries(st, key) ==
    LET id == st.sref[key]
        carried == IF id \in DOMAIN st.chart THEN st.chart[id].priceLines ELSE {}
    IN [st EXCEPT
          !.chart = Without(st.chart, id),
          !.sref = [st.sref EXCEPT ![key] = Null],
          !.ops = Append(st.ops, SurfaceOp("removeSeries", key))
                     \o (IF carried = {} THEN <<>>
                         ELSE <<SurfaceOp("priceLinesDropped", key)>>)]

AllLineIds(st) ==
    UNION {st.chart[id].priceLines : id \in DOMAIN st.chart}
        \cup (Range(st.lref) \ {Null})

(* ref.current = series.createPriceLine(options) *)
SeriesCreatePriceLine(st, key, line) ==
    LET id == st.sref[key]
        lid == FreshId(line, AllLineIds(st))
    IN [st EXCEPT
          !.chart = [st.chart EXCEPT ![id].priceLines = @ \cup {lid}],
          !.lref = [st.lref EXCEPT ![line] = lid],
          !.ops = Append(st.ops, SurfaceOp("createPriceLine", line))]

(* series.removePriceLine(ref.current); ref.current = null *)
SeriesRemovePriceLine(st, key, line) ==
    LET id == st.sref[key]
    IN [st EXCEPT
          !.chart = [st.chart EXCEPT ![id].priceLines = @ \ {st.lref[line]}],
          !.lref = [st.lref EXCEPT ![line] = Null],
          !.ops = Append(st.ops, SurfaceOp("removePriceLine", line))]

(* ---------------- "pane": KlineChart.tsx, lines 899-1041 --------------- *)

(* An allocation that falls back to 'right' when both axes are taken. *)
AllocTargetFallbackRight(st, title, scalePreference) ==
    IF title \in DOMAIN st.assigned THEN st.assigned[title]
    ELSE IF scalePreference = "left" /\ ~st.leftScaleUsed THEN "left"
    ELSE IF scalePreference = "right" /\ ~st.rightScaleUsed THEN "right"
    ELSE IF ~st.leftScaleUsed THEN "left"
    ELSE "right"

(* setupIndicator, lines 916-933: the axis for seriesTitle in this pass *)
AllocTarget(st, title, scalePreference) ==
    IF title \in DOMAIN st.assigned THEN st.assigned[title]
    ELSE IF scalePreference = "left" /\ ~st.leftScaleUsed THEN "left"
    ELSE IF scalePreference = "right" /\ ~st.rightScaleUsed THEN "right"
    ELSE IF ~st.leftScaleUsed THEN "left"
    ELSE IF ~st.rightScaleUsed THEN "right"
    ELSE "left"

(* A bookkeeping that records the axis of the title but never marks an    *)
(* axis as used.                                                           *)
AllocStateUnmarked(st, title, scalePreference) ==
    [st EXCEPT !.assigned = (title :> AllocTarget(st, title, scalePreference))
                                @@ st.assigned]

AllocState(st, title, scalePreference) ==
    LET target == AllocTarget(st, title, scalePreference)
        fresh == title \notin DOMAIN st.assigned
    IN [st EXCEPT
          !.leftScaleUsed = @ \/ (fresh /\ target = "left" /\ ~st.leftScaleUsed),
          !.rightScaleUsed = @ \/ (fresh /\ target = "right" /\ ~st.rightScaleUsed),
          !.assigned = (title :> target) @@ st.assigned]

(* lines.forEach of the visible branch, lines 948-956 *)
RECURSIVE ReplaceLines(_, _, _)
ReplaceLines(st, key, lines) ==
    IF lines = <<>> THEN st
    ELSE Then(IF st.lref[Head(lines)] # Null
              THEN SeriesRemovePriceLine(st, key, Head(lines)) ELSE st,
         LAMBDA s1 : Then(SeriesCreatePriceLine(s1, key, Head(lines)),
         LAMBDA s2 : ReplaceLines(s2, key, Tail(lines))))

(* A faulty teardown that leaves the price lines and their refs alone. *)
RemoveLinesSkipped(st, key, lines) == st

(* lines.forEach of the teardown branch, lines 960-965 *)
RECURSIVE RemoveLines(_, _, _)
RemoveLines(st, key, lines) ==
    IF lines = <<>> THEN st
    ELSE Then(IF st.lref[Head(lines)] # Null
              THEN SeriesRemovePriceLine(st, key, Head(lines)) ELSE st,
         LAMBDA s1 : RemoveLines(s1, key, Tail(lines)))

(* A faulty ensure that adds a series whether or not the ref holds one. *)
EnsureSeriesAlways(st, key, kind, target) == ChartAddSeries(st, key, kind, target)

(* lines 936-944: create the series if the ref is empty, else re-target it *)
EnsureSeries(st, key, kind, target) ==
    IF st.sref[key] = Null
    THEN ChartAddSeries(st, key, kind, target)
    ELSE SeriesApplyScale(st, key, target)

(* setupIndicator, lines 907-969 *)
setupIndicator(st, visible, candles, field, key, kind, scalePreference, lines) ==
    IF visible /\ DataSome(candles, field)
    THEN Then(AllocState(st, key, scalePreference),
         LAMBDA s1 : Then(EnsureSeries(s1, key, kind, s1.assigned[key]),
         LAMBDA s2 : Then(SeriesSetData(s2, key, DataFilter(candles, field, 1)),
         LAMBDA s3 : IF lines # <<>> /\ kind = "Line"
                     THEN ReplaceLines(s3, key, lines) ELSE s3)))
    ELSE IF st.sref[key] # Null
    THEN Then(IF lines # <<>> /\ kind = "Line"
              THEN RemoveLines(st, key, lines) ELSE st,
         LAMBDA s1 : ChartRemoveSeries(s1, key))
    ELSE st

MacdKeys == <<"MACD", "Signal", "Histogram">>

MacdKind(key) == IF key = "Histogram" THEN "Histogram" ELSE "Line"

(* lines 978-988 *)
RECURSIVE MacdEnsureAll(_, _, _, _)
MacdEnsureAll(st, keys, macdScale, points) ==
    IF keys = <<>> THEN st
    ELSE Then(EnsureSeries(st, Head(keys), MacdKind(Head(keys)), macdScale),
         LAMBDA s1 : Then(SeriesSetData(s1, Head(keys), points),
         LAMBDA s2 : MacdEnsureAll(s2, Tail(keys), macdScale, points)))

(* [refs].forEach(ref => { if (ref.current) removeSeries }), line 990 *)
RECURSIVE RemoveAll(_, _)
RemoveAll(st, keys) ==
    IF keys = <<>> THEN st
    ELSE Then(IF st.sref[Head(keys)] # Null
              THEN ChartRemoveSeries(st, Head(keys)) ELSE st,
         LAMBDA s1 : RemoveAll(s1, Tail(keys)))

(* lines 973-976: the axis of the MACD group and the bookkeeping for it *)
MacdScale(st) ==
    IF "MACD_L" \in DOMAIN st.assigned THEN st.assigned["MACD_L"]
    ELSE IF ~st.leftScaleUsed THEN "left"
    ELSE IF ~st.rightScaleUsed THEN "right" ELSE "left"

MacdAlloc(st) ==
    [st EXCEPT
       !.leftScaleUsed = @ \/ (MacdScale(st) = "left"
                               /\ "MACD_L" \notin DOMAIN st.assigned),
       !.rightScaleUsed = @ \/ (MacdScale(st) = "right"
                                /\ "MACD_L" \notin DOMAIN st.assigned),
       !.assigned = ("MACD_L" :> MacdScale(st)) @@ ("MACD_S" :> MacdScale(st))
                    @@ ("MACD_H" :> MacdScale(st)) @@ st.assigned]

(* the MACD block, lines 971-991 *)
MacdBlock(st, visible, candles) ==
    IF visible /\ DataSome(candles, "macd")
    THEN Then(MacdAlloc(st),
         LAMBDA s1 : MacdEnsureAll(s1, MacdKeys, s1.assigned["MACD_L"],
                                   DataFilter(candles, "macd", 1)))
    ELSE RemoveAll(st, MacdKeys)

(* the scalePreference arguments of the three calls, lines 996, 1026, 1032 *)
RsiPreference(st) ==
    IF st.leftScaleUsed /\ "MACD_L" \in DOMAIN st.assigned
       /\ st.assigned["MACD_L"] = "left" /\ ~st.rightScaleUsed
    THEN "right" ELSE "left"

AdxPreference(st) == IF ~st.leftScaleUsed THEN "left" ELSE "right"

(* lines 1035-1038 *)
ApplyScaleVisibility(st) ==
    [st EXCEPT !.scaleVisible = [left |-> st.leftScaleUsed,
                                 right |-> st.rightScaleUsed]]

(* The whole effect body, lines 899-1041. *)
IndicatorEffect(st, toggles, candles) ==
    Then(MacdBlock(st, toggles["macd"], candles),
    LAMBDA s1 : Then(setupIndicator(s1, toggles["rsi"], candles, "rsi", "RSI", "Line",
                                    RsiPreference(s1), LinesOf("RSI")),
    LAMBDA s2 : Then(setupIndicator(s2, toggles["adx"], candles, "adx", "ADX", "Line",
                                    AdxPreference(s2), <<>>),
    LAMBDA s3 : Then(setupIndicator(s3, toggles["atr"], candles, "atr", "ATR", "Line",
                                    AdxPreference(s3), <<>>),
    LAMBDA s4 : ApplyScaleVisibility(s4)))))

(* --------------- "first": KlineChart.tsx, lines 310-394 ---------------- *)

(* lines 314-320: if (ref.current) ref.current.setData([]) *)
RECURSIVE ClearAll(_, _)
ClearAll(st, keys) ==
    IF keys = <<>> THEN st
    ELSE Then(IF st.sref[Head(keys)] # Null
              THEN SeriesSetData(st, Head(keys), <<>>) ELSE st,
         LAMBDA s1 : ClearAll(s1, Tail(keys)))

(* lines 322-344 *)
rsiTargetScaleId(toggles) ==
    IF toggles["macd"] /\ toggles["rsi"] THEN "right" ELSE "left"

FirstScaleVisibility(st, toggles) ==
    [st EXCEPT !.scaleVisible = [left |-> toggles["macd"] \/ toggles["rsi"],
                                 right |-> toggles["macd"] /\ toggles["rsi"]]]

RECURSIVE AddAll(_, _, _)
AddAll(st, keys, scale) ==
    IF keys = <<>> THEN st
    ELSE Then(ChartAddSeries(st, Head(keys), MacdKind(Head(keys)), scale),
         LAMBDA s1 : AddAll(s1, Tail(keys), scale))

RECURSIVE SetAll(_, _, _)
SetAll(st, keys, points) ==
    IF keys = <<>> THEN st
    ELSE Then(SeriesSetData(st, Head(keys), points),
         LAMBDA s1 : SetAll(s1, Tail(keys), points))

(* lines 346-365 *)
FirstMacdBlock(st, toggles, candles) ==
    IF toggles["macd"] /\ DataSome(candles, "macd")
    THEN Then(IF st.sref["MACD"] = Null THEN AddAll(st, MacdKeys, "left") ELSE st,
         LAMBDA s1 : SetAll(s1, MacdKeys, DataFilter(candles, "macd", 1)))
    ELSE RemoveAll(st, MacdKeys)

(* lines 371-376: a line is created only if its ref is empty *)
RECURSIVE CreateMissingLines(_, _, _)
CreateMissingLines(st, key, lines) ==
    IF lines = <<>> THEN st
    ELSE Then(IF st.lref[Head(lines)] = Null
              THEN SeriesCreatePriceLine(st, key, Head(lines)) ELSE st,
         LAMBDA s1 : CreateMissingLines(s1, key, Tail(lines)))

(* lines 368-391 *)
FirstRsiBlock(st, toggles, candles) ==
    IF toggles["rsi"] /\ DataSome(candles, "rsi")
    THEN Then(IF st.sref["RSI"] = Null
              THEN Then(ChartAddSeries(st, "RSI", "Line", rsiTargetScaleId(toggles)),
                   LAMBDA s1 : CreateMissingLines(s1, "RSI", LinesOf("RSI")))
              ELSE st,
         LAMBDA s2 : SeriesSetData(s2, "RSI", DataFilter(candles, "rsi", 1)))
    ELSE IF st.sref["RSI"] # Null
    THEN Then(RemoveLines(st, "RSI", LinesOf("RSI")),
         LAMBDA s1 : ChartRemoveSeries(s1, "RSI"))
    ELSE st

(* The whole effect body, lines 310-394. *)
FirstEffect(st, toggles, candles) ==
    IF Len(candles) = 0
    THEN ClearAll(st, MacdKeys \o <<"RSI">>)
    ELSE Then(FirstScaleVisibility(st, toggles),
         LAMBDA s1 : Then(FirstMacdBlock(s1, toggles, candles),
         LAMBDA s2 : FirstRsiBlock(s2, toggles, candles)))

(* --------------- "main": KlineChart.tsx, lines 747-895 ----------------- *)

(* lines 754-757 (MA) and 759-762 (EMA) *)
MainFamily(st, visible, candles, field, key) ==
    IF visible /\ DataSome(candles, field)
    THEN Then(IF st.sref[key] = Null
              THEN ChartAddSeries(st, key, "Line", "right") ELSE st,
         LAMBDA s1 : SeriesSetData(s1, key, DataFilter(candles, field, 1)))
    ELSE IF st.sref[key] # Null THEN ChartRemoveSeries(st, key)
    ELSE st

MainEffect(st, toggles, candles) ==
    Then(MainFamily(st, toggles["ma"], candles, "ma", "MA"),
    LAMBDA s1 : MainFamily(s1, toggles["ema"], candles, "ema", "EMA"))

(* A faulty clearing that empties fibonacciLinesRef and leaves the lines   *)
(* on the candlestick series.                                              *)
FibonacciClearRefsOnly(st) == [st EXCEPT !.lref = [l \in DOMAIN st.lref |-> Null]]

(* lines 802-805: every line of fibonacciLinesRef is removed from the      *)
(* candlestick series, and the ref is emptied                              *)
FibonacciClear(st) == RemoveLines(st, "Candles", LinesOf("Candles"))

RECURSIVE CreateLines(_, _, _)
CreateLines(st, key, lines) ==
    IF lines = <<>> THEN st
    ELSE Then(SeriesCreatePriceLine(st, key, Head(lines)),
         LAMBDA s1 : CreateLines(s1, key, Tail(lines)))

(* lines 802-824: the Fibonacci price lines of the candlestick series, one *)
(* per level of the last candle that carries a retracement                 *)
FibonacciLines(st, toggles, candles) ==
    Then(FibonacciClear(st),
    LAMBDA s1 : IF toggles["fib"] /\ Len(candles) > 0 /\ DataSome(candles, "fib")
                THEN CreateLines(s1, "Candles", LinesOf("Candles"))
                ELSE s1)

(* The main effect, lines 747-895: the overlays, then the Fibonacci lines. *)
MainChartEffect(st, toggles, candles) ==
    Then(MainEffect(st, toggles, candles),
    LAMBDA s1 : FibonacciLines(s1, toggles, candles))

(* ------------- "firstmain": KlineChart.tsx, lines 250-307 ------------- *)

(* The whole effect body: with no candles the overlays are emptied and     *)
(* kept (254-264), else each is reconciled as in the second draft          *)
(* (271-287).                                                              *)
FirstMainEffect(st, toggles, candles) ==
    IF Len(candles) = 0
    THEN ClearAll(st, <<"MA", "EMA">>)
    ELSE MainEffect(st, toggles, candles)

(* ------------------ "registry": unnamed/part_000 ----------------------- *)

(* lines 142-155: delete priceLineRefs.current[plKey] for the key's lines *)
ForgetLines(st, key) ==
    [st EXCEPT !.lref = [l \in DOMAIN st.lref |->
                            IF l \in Range(LinesOf(key)) THEN Null ELSE st.lref[l]]]

(* manageLineSeries, lines 131-169 *)
manageLineSeries(st, seriesKey, seriesData) ==
    IF Len(seriesData) = 0
    THEN Then(IF st.sref[seriesKey] # Null
              THEN ChartRemoveSeries(st, seriesKey) ELSE st,
         LAMBDA s1 : ForgetLines(s1, seriesKey))
    ELSE IF st.sref[seriesKey] # Null
    THEN SeriesSetData(st, seriesKey, seriesData)
    ELSE Then(ChartAddSeries(st, seriesKey, "Line", "right"),
         LAMBDA s1 : SeriesSetData(s1, seriesKey, seriesData))

(* lines 204-228: the RSI series and its two price lines *)
RegistryRsi(st, candles) ==
    Then(manageLineSeries(st, "rsi_rsi_14", DataFilter(candles, "rsi", 1)),
    LAMBDA s1 : IF s1.sref["rsi_rsi_14"] # Null
                THEN CreateMissingLines(s1, "rsi_rsi_14", LinesOf("rsi_rsi_14"))
                ELSE s1)

(* lines 250-268: the keys the payload carries *)
activeSeriesKeys(present) ==
    UNION {FamilyKeys("registry", f) : f \in {g \in DOMAIN present : present[g]}}

(* lines 270-285: remove every registered series whose key is not active *)
RECURSIVE RegistryCleanup(_, _, _)
RegistryCleanup(st, keys, active) ==
    IF keys = <<>> THEN st
    ELSE Then(IF st.sref[Head(keys)] # Null /\ Head(keys) \notin active
              THEN Then(RemoveLines(st, Head(keys), LinesOf(Head(keys))),
                   LAMBDA s1 : ChartRemoveSeries(s1, Head(keys)))
              ELSE st,
         LAMBDA s2 : RegistryCleanup(s2, Tail(keys), active))

(* The indicator block of the effect, lines 127-287. *)
RegistryEffect(st, present, candles) ==
    IF Len(candles) = 0 THEN st
    ELSE Then(IF present["ema"]
              THEN manageLineSeries(st, "ema_200", DataFilter(candles, "ema", 1))
              ELSE st,
         LAMBDA s1 : Then(IF present["rsi"] THEN RegistryRsi(s1, candles) ELSE s1,
         LAMBDA s2 : RegistryCleanup(s2, <<"ema_200", "rsi_rsi_14">>,
                                     activeSeriesKeys(present))))

(* -------------------- "mount": unnamed/part_001 ------------------------ *)

(* lines 94-97: chartRef.current.remove(); the series refs keep pointing at *)
(* the series of the chart that is gone                                    *)
ChartRemove(st) ==
    IF mounted
    THEN [st EXCEPT !.chart = [id \in {} |-> Null],
                    !.ops = Append(st.ops, SurfaceOp("remove", "chart"))]
    ELSE st

(* The mount effect, lines 91-270: a new chart, and a series for every     *)
(* family whose toggle is on.                                              *)
MountEffect(st, toggles) ==
    Then(ChartRemove(st),
    LAMBDA s1 : Then(IF toggles["rsi"]
                     THEN ChartAddSeries(s1, "RSI", "Line", "rsi-scale") ELSE s1,
    LAMBDA s2 : IF toggles["ema200"]
                THEN ChartAddSeries(s2, "EMA 200", "Line", "right") ELSE s2))

(* The data effects, lines 274 and 278. *)
MountDataEffect(st, toggles, candles, field, key) ==
    IF st.sref[key] # Null
    THEN Then(SeriesSetData(st, key, DataFilter(candles, field, 1)),
         LAMBDA s1 : SeriesApplyVisible(s1, key, toggles[field]))
    ELSE st

(* The effects React runs for one render: those whose dependencies changed. *)
MountRender(st, toggles, candles) ==
    LET first == ~mounted
        remount == first \/ toggles["rsi"] # show["rsi"] \/ (toggles = show /\ candles = data)
        rsiRun == first \/ toggles["rsi"] # show["rsi"]
                     \/ DataFilter(candles, "rsi", 1) # DataFilter(data, "rsi", 1)
        emaRun == first \/ toggles["ema200"] # show["ema200"]
                     \/ DataFilter(candles, "ema200", 1) # DataFilter(data, "ema200", 1)
    IN Then(IF remount THEN MountEffect(st, toggles) ELSE st,
       LAMBDA s1 : Then(IF rsiRun
                        THEN MountDataEffect(s1, toggles, candles, "rsi", "RSI") ELSE s1,
       LAMBDA s2 : IF emaRun
                   THEN MountDataEffect(s2, toggles, candles, "ema200", "EMA 200")
                   ELSE s2))

(* ------------------------- the renders --------------------------------- *)

Effect(st, toggles, candles) ==
    CASE draft = "pane" -> IndicatorEffect(st, toggles, candles)
      [] draft = "first" -> FirstEffect(st, toggles, candles)
      [] draft = "main" -> MainChartEffect(st, toggles, candles)
      [] draft = "firstmain" -> FirstMainEffect(st, toggles, candles)
      [] draft = "registry" -> RegistryEffect(st, toggles, candles)
      [] draft = "mount" -> MountRender(st, toggles, candles)

RsiKey == IF draft = "registry" THEN "rsi_rsi_14" ELSE "RSI"

LiveSeries(key) == {id \in DOMAIN chart : chart[id].title = key}

(* The payload has RSI points, and the RSI series is drawn once, with      *)
(* points, and carries its two lines.                                      *)
RsiFull ==
    /\ "rsi" \in DOMAIN show /\ show["rsi"]
    /\ DataSome(data, "rsi")
    /\ Cardinality(LiveSeries(RsiKey)) = 1
    /\ seriesRef[RsiKey] \in LiveSeries(RsiKey)
    /\ chart[seriesRef[RsiKey]].points # <<>>
    /\ Cardinality(DraftLines(draft)) = 2
    /\ \A l \in DraftLines(draft) : lineRef[l] # Null
    /\ chart[seriesRef[RsiKey]].priceLines = {lineRef[l] : l \in DraftLines(draft)}
    /\ Cardinality(chart[seriesRef[RsiKey]].priceLines) = 2

(* No RSI series and no RSI line, on the surface or in the refs. *)
RsiGone ==
    /\ LiveSeries(RsiKey) = {}
    /\ seriesRef[RsiKey] = Null
    /\ \A l \in DraftLines(draft) : lineRef[l] = Null
    /\ \A id \in DOMAIN chart : \A pl \in chart[id].priceLines :
           pl[1] \notin DraftLines(draft)

(* The chart after the creation effect: in the second draft (lines        *)
(* 591-620) the main chart holds the candlestick series.                   *)
CreatedChart(d) ==
    IF d = "main"
    THEN (<<"Candles", 1>> :> [title |-> "Candles", kind |-> "Candlestick",
                               priceScaleId |-> "right", visible |-> TRUE,
                               priceLines |-> {}, points |-> <<>>])
    ELSE [id \in {} |-> Null]

ReconcileInit ==
    /\ draft \in Drafts
    /\ mounted = (draft # "mount")
    /\ data = <<>>
    /\ show = DefaultShow(draft)
    /\ chart = CreatedChart(draft)
    /\ seriesRef = [k \in DraftKeys(draft) |->
                       IF k = "Candles" THEN <<"Candles", 1>> ELSE Null]
    /\ lineRef = [l \in DraftLines(draft) |-> Null]
    /\ ops = <<>>
    /\ scaleVisible = [left |-> FALSE, right |-> FALSE]
    /\ trail = "start"
    /\ unmounted = FALSE

(* One render with the given props: the effects run on the refs and the    *)
(* surface.                                                                *)
Render(toggles, candles) ==
    /\ ~unmounted
    /\ \E s \in {Effect([chart |-> chart, sref |-> seriesRef, lref |-> lineRef,
                      ops |-> <<>>, leftScaleUsed |-> FALSE,
                      rightScaleUsed |-> FALSE, assigned |-> [t \in {} |-> "left"],
                      scaleVisible |-> scaleVisible], toggles, candles)} :
       /\ chart' = s.chart
       /\ seriesRef' = s.sref
       /\ lineRef' = s.lref
       /\ ops' = s.ops
       /\ scaleVisible' = s.scaleVisible
       /\ show' = toggles
       /\ data' = candles
       /\ mounted' = TRUE
       /\ UNCHANGED <<draft, unmounted, mergeVars, hookVars, syncVars, socketVars, joinVars,
                      formatVars, groupVars, authVars>>

(* The component is rendered for the first time. *)
FirstRender ==
    /\ ~mounted
    /\ Render(show, data)
    /\ trail' = "other"

(* The user flips one indicator switch (registry: the payload gains or     *)
(* loses the family).                                                      *)
Toggle(f) ==
    /\ mounted
    /\ Render([show EXCEPT ![f] = ~@], data)
    /\ trail' = IF f = "rsi" /\ show[f] /\ RsiFull THEN "rsiOff"
                ELSE IF f = "rsi" /\ ~show[f] /\ trail = "rsiOff" THEN "rsiOn"
                ELSE "other"

(* New chart data arrives. *)
DataArrival(d) ==
    /\ mounted
    /\ d # data
    /\ Render(show, d)
    /\ trail' = "other"

(* The effects run again with unchanged data and toggles: another          *)
(* dependency changed (backgroundColor, theme, height), or the parent      *)
(* handed over an equal but new data array.                                *)
Rerun ==
    /\ mounted
    /\ Render(show, data)
    /\ trail' = IF draft = "mount" THEN "other" ELSE "rerun"

(* The page's symbol or interval changes, unnamed/part_013 lines 55-64:     *)
(* setChartKlines([]) and setChartIndicators({timestamps: []}), so the     *)
(* chart of unnamed/part_000 renders with an empty payload.                *)
SelectionChange ==
    /\ mounted
    /\ draft = "registry"
    /\ Render([f \in DraftFields(draft) |-> FALSE], <<>>)
    /\ trail' = "reset"

(* unnamed/part_000 lines 305-319: for every registered series, every      *)
(* registered price line is taken off it (a line that is not on this       *)
(* series is skipped, the error being ignored) and its ref deleted, then   *)
(* the series is removed.                                                  *)
RECURSIVE UnmountSeries(_, _)
UnmountSeries(st, keys) ==
    IF keys = <<>> THEN st
    ELSE Then(IF st.sref[Head(keys)] # Null
              THEN Then(RemoveLines(st, Head(keys), LinesOf("rsi_rsi_14")),
                   LAMBDA s1 : ChartRemoveSeries(s1, Head(keys)))
              ELSE st,
         LAMBDA s2 : UnmountSeries(s2, Tail(keys)))

(* unnamed/part_000 lines 301-331: the series and their lines go, the      *)
(* chart is removed and every ref is reset.                                *)
RegistryUnmount(st) ==
    Then(UnmountSeries(st, <<"ema_200", "rsi_rsi_14">>),
    LAMBDA s1 : [s1 EXCEPT
                   !.chart = [id \in {} |-> Null],
                   !.sref = [k \in DOMAIN s1.sref |-> Null],
                   !.lref = [l \in DOMAIN s1.lref |-> Null],
                   !.ops = Append(s1.ops, SurfaceOp("remove", "chart"))])

(* What the cleanups of the mounted draft do to the surface and the refs:  *)
(* unnamed/part_000 lines 301-331 empty both; unnamed/part_001 lines       *)
(* 261-266 remove the chart and keep the series refs; the cleanups of      *)
(* KlineChart.tsx (lines 238-246 and 738-743) take off the resize listener *)
(* and the range subscriptions and touch neither the charts nor the refs.  *)
UnmountCleanup(st) ==
    CASE draft = "registry" -> RegistryUnmount(st)
      [] draft = "mount" -> ChartRemove(st)
      [] OTHER -> st

(* The component is unmounted: React runs the cleanups of its effects.     *)
Unmount ==
    /\ mounted
    /\ ~unmounted
    /\ \E s \in {UnmountCleanup([chart |-> chart, sref |-> seriesRef,
                                 lref |-> lineRef, ops |-> <<>>])} :
          /\ chart' = s.chart
          /\ seriesRef' = s.sref
          /\ lineRef' = s.lref
          /\ ops' = s.ops
    /\ unmounted' = TRUE
    /\ trail' = "unmount"
    /\ UNCHANGED <<draft, mounted, data, show, scaleVisible, mergeVars, hookVars,
                   syncVars, socketVars, joinVars, formatVars, groupVars, authVars>>

ReconcileNext ==
    \/ FirstRender
    \/ SelectionChange
    \/ \E f \in DraftFields(draft) : Toggle(f)
    \/ \E d \in DataValues(draft) : DataArrival(d)
    \/ Rerun
    \/ Unmount

(***************************************************************************)
(*        MERGE: unnamed/part_011 (DashboardPage) with unnamed/part_002    *)
(*        (KlineChart): historical load and real-time candle updates       *)
(***************************************************************************)
MaxTime == 3

MaxPayload == 2

MaxHistorical == 2

Times == 1..MaxTime

Candle(t, p) == [time |-> t, close |-> p]

(* The candles a stream message can carry. *)
StreamCandles == {Candle(t, p) : t \in Times, p \in 1..MaxPayload}

(* The responses of fetchMarketKlines: klines of distinct open times, in   *)
(* any order; their payload is 0.                                          *)
HistoricalResponses ==
    {h \in UNION {[1..n -> Times] : n \in 0..MaxHistorical} :
        \A i, j \in DOMAIN h : i # j => h[i] # h[j]}

(* mapHistoricalDataToCandlestick, part_002 lines 15-24 *)
mapHistoricalDataToCandlestick(openTime) == Candle(openTime, 0)

(* Array.prototype.sort((a, b) => a.time - b.time), part_002 line 69 *)
RECURSIVE InsertByTime(_, _)
InsertByTime(sorted, c) ==
    IF sorted = <<>> THEN <<c>>
    ELSE IF c.time < Head(sorted).time THEN <<c>> \o sorted
    ELSE <<Head(sorted)>> \o InsertByTime(Tail(sorted), c)

RECURSIVE SortByTime(_)
SortByTime(s) ==
    IF s = <<>> THEN <<>>
    ELSE InsertByTime(SortByTime(Tail(s)), Head(s))

(* A faulty mapping that leaves the klines in the order of the response. *)
MappedHistoricalDataUnsorted(h) ==
    [i \in DOMAIN h |-> mapHistoricalDataToCandlestick(h[i])]

(* data.map(mapHistoricalDataToCandlestick).sort(...), part_002 line 69 *)
MappedHistoricalData(h) ==
    SortByTime([i \in DOMAIN h |-> mapHistoricalDataToCandlestick(h[i])])

(* A faulty update that ignores a candle at the time of the last one. *)
SeriesUpdateKeepOld(series, c) ==
    IF series # <<>> /\ c.time = series[Len(series)].time
    THEN [series |-> series, threw |-> FALSE]
    ELSE IF series # <<>> /\ c.time < series[Len(series)].time
    THEN [series |-> series, threw |-> TRUE]
    ELSE [series |-> Append(series, c), threw |-> FALSE]

(* seriesInstanceRef.current.update(lastCandleUpdate), part_002 line 87.   *)
(* lightweight-charts: a bar at the time of the last bar replaces it, a    *)
(* later bar is appended, an earlier bar makes update throw ("Cannot       *)
(* update oldest data") and leaves the series as it was.                   *)
SeriesUpdate(series, c) ==
    IF series = <<>> \/ c.time > series[Len(series)].time
    THEN [series |-> Append(series, c), threw |-> FALSE]
    ELSE IF c.time = series[Len(series)].time
    THEN [series |-> [series EXCEPT ![Len(series)] = c], threw |-> FALSE]
    ELSE [series |-> series, threw |-> TRUE]

MergeInit ==
    /\ mSeries = <<>>
    /\ mHistorical = <<>>
    /\ mLastUpdate = Null
    /\ mLoading = TRUE
    /\ mDataDue = FALSE
    /\ mUpdateDue = FALSE
    /\ mError = FALSE
    /\ mLatest = [t \in Times |-> 0]
    /\ mOverwritten = {}

(* loadHistoricalData up to its await, part_011 lines 54-64 *)
LoadHistoricalData ==
    /\ ~mError /\ ~mLoading
    /\ mLoading' = TRUE
    /\ mLastUpdate' = Null
    /\ mUpdateDue' = (mUpdateDue \/ mLastUpdate # Null)
    /\ UNCHANGED <<mSeries, mHistorical, mDataDue, mError, mLatest, mOverwritten,
                   surfaceVars, hookVars, syncVars, socketVars, joinVars, formatVars,
                   groupVars, authVars>>

(* loadHistoricalData after its await, part_011 lines 65-79; the catch     *)
(* branch is the empty response                                            *)
HistoricalLoaded(h) ==
    /\ ~mError /\ mLoading
    /\ mHistorical' = h
    /\ mDataDue' = TRUE
    /\ mLoading' = FALSE
    /\ UNCHANGED <<mSeries, mLastUpdate, mUpdateDue, mError, mLatest, mOverwritten,
                   surfaceVars, hookVars, syncVars, socketVars, joinVars, formatVars,
                   groupVars, authVars>>

(* newSocket.onmessage, part_011 lines 121-141 *)
OnMessage(c) ==
    /\ ~mError
    /\ mLastUpdate' = c
    /\ mUpdateDue' = TRUE
    /\ UNCHANGED <<mSeries, mHistorical, mLoading, mDataDue, mError, mLatest,
                   mOverwritten,
                   surfaceVars, hookVars, syncVars, socketVars, joinVars, formatVars,
                   groupVars, authVars>>

(* The chart re-renders: the effects of part_002 whose dependency changed  *)
(* run in order, lines 66-80 and 84-89.                                    *)
MergeRender ==
    /\ ~mError
    /\ mDataDue \/ mUpdateDue
    /\ LET afterData == IF mDataDue THEN MappedHistoricalData(mHistorical)
                        ELSE mSeries
           latest == IF mDataDue THEN [t \in Times |-> 0] ELSE mLatest
           over == IF mDataDue THEN {} ELSE mOverwritten
           applies == mUpdateDue /\ mLastUpdate # Null
       IN \E r \in {IF applies THEN SeriesUpdate(afterData, mLastUpdate)
                    ELSE [series |-> afterData, threw |-> FALSE]} :
             /\ mSeries' = r.series
             /\ mError' = r.threw
             /\ mLatest' = IF applies /\ ~r.threw
                           THEN [latest EXCEPT ![mLastUpdate.time] = mLastUpdate.close]
                           ELSE latest
             /\ mOverwritten' =
                   IF applies /\ ~r.threw /\ afterData # <<>>
                      /\ mLastUpdate.time = afterData[Len(afterData)].time
                   THEN over \cup {mLastUpdate.time} ELSE over
    /\ mDataDue' = FALSE
    /\ mUpdateDue' = FALSE
    /\ UNCHANGED <<mHistorical, mLastUpdate, mLoading,
                   surfaceVars, hookVars, syncVars, socketVars, joinVars, formatVars,
                   groupVars, authVars>>

MergeNext ==
    \/ LoadHistoricalData
    \/ \E h \in HistoricalResponses : HistoricalLoaded(h)
    \/ \E c \in StreamCandles : OnMessage(c)
    \/ MergeRender

(***************************************************************************)
(*     HOOK: unnamed/part_017 (useMarketDataWebSocket) and the page that   *)
(*     seeds it and feeds the chart, unnamed/part_013 (DashboardPage)      *)
(***************************************************************************)
(* MAX_KLINES_IN_STATE of part_017 line 19 (500), scaled down *)
MaxKlinesInState == 2

MaxFeed == 3

MaxBase == 1

MaxFetches == 2

MaxSymbols == 2

(* The selections (symbol and interval) the user can choose. *)
Symbols == 1..MaxSymbols

RECURSIVE SumOver(_, _)
SumOver(f, S) ==
    IF S = {} THEN 0
    ELSE LET x == CHOOSE x \in S : TRUE IN f[x] + SumOver(f, S \ {x})

(* The calls of fetchAndSetInitialData in flight. *)
InFlight == SumOver(hFetching, Symbols)

(* The kline lists a response or message can carry: n klines, ascending. *)
Feeds == {[i \in 1..n |-> b + i] : n \in 0..MaxFeed, b \in 0..MaxBase}

(* klines.slice(-n) *)
SliceLast(s, n) ==
    IF Len(s) <= n THEN s ELSE SubSeq(s, Len(s) - n + 1, Len(s))

HookInit ==
    /\ hKlines = <<>>
    /\ hChartKlines = <<>>
    /\ hWs = "connecting"
    /\ hIsConnected = FALSE
    /\ hIsConnecting = TRUE
    /\ hIsPolling = FALSE
    /\ hSelected = 1
    /\ hFetching = [s \in Symbols |-> IF s = 1 THEN 1 ELSE 0]
    /\ hPageDue = FALSE
    /\ hLastFed = <<>>
    /\ hPollTimer = FALSE
    /\ hPollSees = FALSE
    /\ hConnSees = FALSE
    /\ hEffectSaw = FALSE
    /\ hPolled = "none"
    /\ hOld = "none"
    /\ hOldHandlers = {}
    /\ hOldEvents = 0

MaxOldEvents == 2

(* The four handlers of a socket, part_017 lines 116, 129, 154 and 164 *)
HandlerKinds == {"open", "message", "error", "close"}

(* The handlers a dropped socket keeps when only onclose is set to null *)
CleanupHandlersOncloseOnly == {"open", "message", "error"}

(* The handlers the socket of webSocketRef keeps once the cleanup of the   *)
(* effect has dropped it, part_017 lines 207-212 (and connectWebSocket,    *)
(* lines 102-109): all four are set to null before close()                 *)
CleanupHandlers == {}

(* ws.onopen, part_017 lines 116-127 *)
WsOpen ==
    /\ hWs = "connecting"
    /\ hWs' = "open"
    /\ hIsConnected' = TRUE
    /\ hIsConnecting' = FALSE
    /\ hIsPolling' = FALSE
    /\ hPollTimer' = FALSE
    /\ hPageDue' = TRUE
    /\ UNCHANGED <<hKlines, hChartKlines, hSelected, hFetching, hLastFed,
                   hPollSees, hConnSees, hEffectSaw, hPolled,
                   oldVars,
                   surfaceVars, mergeVars, syncVars, socketVars, joinVars, formatVars,
                   groupVars, authVars>>

(* ws.onmessage with a kline_with_indicators message, part_017 lines 129-143 *)
WsMessage(p) ==
    /\ hWs = "open"
    /\ hKlines' = (IF Len(p) > MaxKlinesInState
                   THEN SliceLast(p, MaxKlinesInState) ELSE p)
    /\ hLastFed' = p
    /\ hPageDue' = TRUE
    /\ UNCHANGED <<hChartKlines, hWs, hIsConnected, hIsConnecting, hIsPolling,
                   hSelected, hFetching, pollVars,
                   oldVars,
                   surfaceVars, mergeVars, syncVars, socketVars, joinVars, formatVars,
                   groupVars, authVars>>

(* pollData, part_017 lines 45-60, of a render that saw isPolling = sees,  *)
(* its response p awaited: the klines of the hook afterwards               *)
pollData(klines, sees, p) ==
    IF sees THEN SliceLast(p, MaxKlinesInState) ELSE klines

(* ws.onclose of the socket of webSocketRef, part_017 lines 164-181, with  *)
(* startPolling, lines 62-67, of the render that connected the socket:     *)
(* isPolling is set, the pollData of that render is called once and        *)
(* handed to setInterval                                                   *)
WsClose(p) ==
    /\ hWs \in {"connecting", "open"}
    /\ hWs' = "none"
    /\ hIsConnected' = FALSE
    /\ hIsConnecting' = FALSE
    /\ hPageDue' = TRUE
    /\ IF hPollTimer
       THEN UNCHANGED <<hIsPolling, hPollTimer, hPollSees, hPolled, hKlines, hLastFed>>
       ELSE /\ hIsPolling' = TRUE
            /\ hPollTimer' = TRUE
            /\ hPollSees' = hConnSees
            /\ hPolled' = IF hConnSees THEN "fetched" ELSE "none"
            /\ hKlines' = pollData(hKlines, hConnSees, p)
            /\ hLastFed' = IF hConnSees THEN p ELSE hLastFed
    /\ UNCHANGED <<hChartKlines, hSelected, hFetching, hConnSees, hEffectSaw,
                   oldVars,
                   surfaceVars, mergeVars, syncVars, socketVars, joinVars, formatVars,
                   groupVars, authVars>>

(* A tick of the interval of line 66: the pollData handed to setInterval   *)
PollTick(p) ==
    /\ hPollTimer
    /\ hKlines' = pollData(hKlines, hPollSees, p)
    /\ hLastFed' = IF hPollSees THEN p ELSE hLastFed
    /\ hPageDue' = (hPageDue \/ hPollSees)
    /\ hPolled' = IF hPollSees THEN "fetched" ELSE "noop"
    /\ UNCHANGED <<hChartKlines, hWs, hIsConnected, hIsConnecting, hIsPolling,
                   hSelected, hFetching, hPollTimer, hPollSees, hConnSees,
                   hEffectSaw,
                   oldVars,
                   surfaceVars, mergeVars, syncVars, socketVars, joinVars, formatVars,
                   groupVars, authVars>>

(* The effect runs again and its stopPolling leaves the interval of line   *)
(* 66 registered                                                           *)
HookEffectTimerKept ==
    /\ hEffectSaw # hIsPolling
    /\ hWs' = "connecting"
    /\ hIsConnected' = FALSE
    /\ hIsConnecting' = TRUE
    /\ hIsPolling' = FALSE
    /\ hPollTimer' = hPollTimer
    /\ hConnSees' = hIsPolling
    /\ hEffectSaw' = hIsPolling
    /\ IF hWs = "none"
       THEN UNCHANGED oldVars
       ELSE /\ hOld' = "closing"
            /\ hOldHandlers' = CleanupHandlers
            /\ hOldEvents' = 0
    /\ hPageDue' = TRUE
    /\ UNCHANGED <<hKlines, hChartKlines, hSelected, hFetching, hLastFed,
                   hPollSees, hPolled,
                   surfaceVars, mergeVars, syncVars, socketVars, joinVars, formatVars,
                   groupVars, authVars>>

(* The effect of part_017 lines 184-217 runs again because isPolling, and  *)
(* with it pollData, startPolling and connectWebSocket (lines 60, 67,      *)
(* 182), changed: the cleanup (205-216) drops the socket and stops         *)
(* polling, connectWebSocket (70-114) stops polling and opens a socket     *)
(* whose handlers close over the pollData of this render                   *)
HookEffect ==
    /\ hEffectSaw # hIsPolling
    /\ hWs' = "connecting"
    /\ hIsConnected' = FALSE
    /\ hIsConnecting' = TRUE
    /\ hIsPolling' = FALSE
    /\ hPollTimer' = FALSE
    /\ hConnSees' = hIsPolling
    /\ hEffectSaw' = hIsPolling
    /\ IF hWs = "none"
       THEN UNCHANGED oldVars
       ELSE /\ hOld' = "closing"
            /\ hOldHandlers' = CleanupHandlers
            /\ hOldEvents' = 0
    /\ hPageDue' = TRUE
    /\ UNCHANGED <<hKlines, hChartKlines, hSelected, hFetching, hLastFed,
                   hPollSees, hPolled,
                   surfaceVars, mergeVars, syncVars, socketVars, joinVars, formatVars,
                   groupVars, authVars>>

(* The socket the cleanup dropped fires an event: the handler of that      *)
(* kind runs if the socket still carries it. onopen, part_017 lines        *)
(* 116-127; onmessage, 129-143; onerror, 154-162; onclose, 164-181, where  *)
(* webSocketRef.current === ws is false for a dropped socket               *)
OldSocketEvent(kind, p) ==
    /\ hOld = "closing"
    /\ hOldEvents < MaxOldEvents
    /\ hOldEvents' = hOldEvents + 1
    /\ hOld' = IF kind = "close" THEN "none" ELSE hOld
    /\ IF kind \in hOldHandlers /\ kind = "open"
       THEN /\ hIsConnected' = TRUE
            /\ hIsConnecting' = FALSE
            /\ hIsPolling' = FALSE
            /\ hPollTimer' = FALSE
            /\ hPageDue' = TRUE
            /\ UNCHANGED <<hKlines, hLastFed>>
       ELSE IF kind \in hOldHandlers /\ kind = "message"
       THEN /\ hKlines' = SliceLast(p, MaxKlinesInState)
            /\ hLastFed' = p
            /\ hPageDue' = TRUE
            /\ UNCHANGED <<hIsConnected, hIsConnecting, hIsPolling, hPollTimer>>
       ELSE IF kind \in hOldHandlers /\ kind = "error"
       THEN /\ hIsConnected' = FALSE
            /\ hIsConnecting' = FALSE
            /\ hPageDue' = TRUE
            /\ UNCHANGED <<hKlines, hLastFed, hIsPolling, hPollTimer>>
       ELSE UNCHANGED <<hKlines, hLastFed, hIsConnected, hIsConnecting,
                        hIsPolling, hPollTimer, hPageDue>>
    /\ UNCHANGED <<hChartKlines, hWs, hSelected, hFetching, hPollSees,
                   hConnSees, hEffectSaw, hPolled, hOldHandlers,
                   surfaceVars, mergeVars, syncVars, socketVars, joinVars, formatVars,
                   groupVars, authVars>>

(* fetchAndSetInitialData after its await, part_013 lines 40-43, and       *)
(* setInitialData, part_017 lines 220-227                                  *)
InitialDataLoaded(s, p) ==
    /\ hFetching[s] > 0
    /\ hFetching' = [hFetching EXCEPT ![s] = @ - 1]
    /\ hKlines' = SliceLast(p, MaxKlinesInState)
    /\ hChartKlines' = p
    /\ hLastFed' = p
    /\ hPageDue' = TRUE
    /\ UNCHANGED <<hWs, hIsConnected, hIsConnecting, hIsPolling, hSelected,
                   pollVars,
                   oldVars,
                   surfaceVars, mergeVars, syncVars, socketVars, joinVars, formatVars,
                   groupVars, authVars>>

(* fetchAndSetInitialData, the catch branch, part_013 lines 44-50 *)
InitialDataFailed(s) ==
    /\ hFetching[s] > 0
    /\ hFetching' = [hFetching EXCEPT ![s] = @ - 1]
    /\ hChartKlines' = <<>>
    /\ UNCHANGED <<hKlines, hWs, hIsConnected, hIsConnecting, hIsPolling,
                   hSelected, hPageDue, hLastFed, pollVars,
                   oldVars,
                   surfaceVars, mergeVars, syncVars, socketVars, joinVars, formatVars,
                   groupVars, authVars>>

(* The page effect on [wsKlines, wsIndicators, isConnected, isConnecting,  *)
(* isPollingActive], part_013 lines 66-78                                  *)
PageEffect ==
    /\ hPageDue
    /\ hPageDue' = FALSE
    /\ hChartKlines' = (IF Len(hKlines) > 0 \/ hIsPolling THEN hKlines
                        ELSE hChartKlines)
    /\ UNCHANGED <<hKlines, hWs, hIsConnected, hIsConnecting, hIsPolling,
                   hSelected, hFetching, hLastFed, pollVars,
                   oldVars,
                   surfaceVars, mergeVars, syncVars, socketVars, joinVars, formatVars,
                   groupVars, authVars>>

(* handleSymbolChange / handleIntervalChange, part_013 lines 80-86: the    *)
(* page effect of lines 55-64 clears the chart and fetches; the hook       *)
(* effect of part_017 lines 184-217 closes the socket and connects again   *)
SelectSymbol(s) ==
    /\ InFlight < MaxFetches
    /\ s # hSelected
    /\ hSelected' = s
    /\ hFetching' = [hFetching EXCEPT ![s] = @ + 1]
    /\ hChartKlines' = <<>>
    /\ hWs' = "connecting"
    /\ hIsConnected' = FALSE
    /\ hIsConnecting' = TRUE
    /\ hIsPolling' = FALSE
    /\ hPollTimer' = FALSE
    /\ hConnSees' = hIsPolling
    /\ hEffectSaw' = hIsPolling
    /\ IF hWs = "none"
       THEN UNCHANGED oldVars
       ELSE /\ hOld' = "closing"
            /\ hOldHandlers' = CleanupHandlers
            /\ hOldEvents' = 0
    /\ hPageDue' = TRUE
    /\ UNCHANGED <<hKlines, hLastFed, hPollSees, hPolled,
                   surfaceVars, mergeVars, syncVars, socketVars, joinVars, formatVars,
                   groupVars, authVars>>

HookNext ==
    \/ WsOpen
    \/ \E p \in Feeds : WsMessage(p)
    \/ \E p \in Feeds : WsClose(p)
    \/ \E p \in Feeds : PollTick(p)
    \/ HookEffect
    \/ \E kind \in HandlerKinds, p \in Feeds : OldSocketEvent(kind, p)
    \/ \E s \in Symbols, p \in Feeds : InitialDataLoaded(s, p)
    \/ \E s \in Symbols : InitialDataFailed(s)
    \/ PageEffect
    \/ \E s \in Symbols : SelectSymbol(s)

(***************************************************************************)
(*     SYNC: the viewport synchronisation of the main and the indicator    *)
(*     pane, KlineChart.tsx lines 159-167 (first draft, no flag) and       *)
(*     574-582, 636-654 (second draft, syncLock)                           *)
(***************************************************************************)
Panes == {"main", "indicator"}

Other(p) == IF p = "main" THEN "indicator" ELSE "main"

MaxRange == 2

MaxUserChanges == 2

(* the debounce delay of 20 ms, in ticks of 10 ms *)
DebounceTicks == 2

Ranges == 0..MaxRange

(* debounce, lines 576-582: clearTimeout, then setTimeout(func, delay) *)
debounce(timers, p, range, echo) ==
    [timers EXCEPT ![p] = <<[left |-> DebounceTicks, range |-> range,
                             echo |-> echo, fit |-> FALSE]>>]

(* timeScale.setVisibleLogicalRange(range) on pane p: the range changes    *)
(* and the pane's subscribers are called, if the range is a new one        *)
setVisibleLogicalRange(ranges, timers, p, range, echo) ==
    IF ranges[p] = range
    THEN [ranges |-> ranges, timers |-> timers]
    ELSE [ranges |-> [ranges EXCEPT ![p] = range],
          timers |-> debounce(timers, p, range, echo)]

SyncInit ==
    /\ yDraft \in {"plain", "guarded"}
    /\ yRange = [p \in Panes |-> 0]
    /\ yTimer = [p \in Panes |-> <<>>]
    /\ ySyncLock = FALSE
    /\ yUnlock = 0
    /\ yUser = 0
    /\ yFired = [p \in Panes |-> 0]
    /\ yLast = [pane |-> "none", echo |-> FALSE, fit |-> FALSE, locked |-> FALSE,
                applied |-> FALSE]
    /\ yBounce = FALSE

(* The user scrolls or zooms pane p to range r. *)
UserChange(p, r) ==
    /\ yUser < MaxUserChanges
    /\ r # yRange[p]
    /\ \E s \in {setVisibleLogicalRange(yRange, yTimer, p, r, FALSE)} :
          /\ yRange' = s.ranges
          /\ yTimer' = s.timers
    /\ yUser' = yUser + 1
    /\ yFired' = [q \in Panes |-> 0]
    /\ UNCHANGED <<yDraft, ySyncLock, yUnlock, yLast, yBounce,
                   surfaceVars, mergeVars, hookVars, socketVars, joinVars, formatVars,
                   groupVars, authVars>>

(* The timeout of pane p's debounced handler fires: syncMainToIndicator /  *)
(* syncIndicatorToMain, lines 636-651 (159-164 in the first draft).        *)
HandlerFires(p) ==
    /\ yTimer[p] # <<>>
    /\ yTimer[p][1].left = 0
    /\ LET ev == yTimer[p][1]
           locked == yDraft = "guarded" /\ ySyncLock
           cleared == [yTimer EXCEPT ![p] = <<>>]
       IN IF locked
          THEN /\ yTimer' = cleared
               /\ yLast' = [pane |-> p, echo |-> ev.echo, fit |-> ev.fit,
                            locked |-> TRUE, applied |-> FALSE]
               /\ UNCHANGED <<yRange, ySyncLock, yUnlock, yFired, yBounce>>
          ELSE \E s \in {setVisibleLogicalRange(yRange, cleared, Other(p),
                                                 ev.range, TRUE)} :
               /\ yRange' = s.ranges
               /\ yTimer' = s.timers
               /\ ySyncLock' = (yDraft = "guarded")
               /\ yUnlock' = IF yDraft = "guarded" THEN yUnlock + 1 ELSE yUnlock
               /\ yFired' = [yFired EXCEPT ![p] = @ + 1]
               /\ yLast' = [pane |-> p, echo |-> ev.echo, fit |-> ev.fit,
                            locked |-> FALSE, applied |-> TRUE]
               /\ yBounce' = (yBounce \/ (ev.echo /\ s.ranges # yRange))
    /\ UNCHANGED <<yDraft, yUser,
                   surfaceVars, mergeVars, hookVars, socketVars, joinVars, formatVars,
                   groupVars, authVars>>

(* A reconciliation pass over non-empty data ends with                     *)
(* timeScale().fitContent() on its pane, line 825 (main effect) and line   *)
(* 1039 (indicator effect): the pane shows the range r that fits its       *)
(* content and, the range being a new one, calls its subscribers           *)
FitContent(p, r) ==
    /\ r # yRange[p]
    /\ yRange' = [yRange EXCEPT ![p] = r]
    /\ yTimer' = [debounce(yTimer, p, r, FALSE) EXCEPT ![p][1].fit = TRUE]
    /\ yFired' = [q \in Panes |-> 0]
    /\ UNCHANGED <<yDraft, ySyncLock, yUnlock, yUser, yLast, yBounce,
                   surfaceVars, mergeVars, hookVars, socketVars, joinVars, formatVars,
                   groupVars, authVars>>

(* A zero-delay timeout that fires without clearing the flag. *)
UnlockKeepsFlag ==
    /\ yUnlock > 0
    /\ yUnlock' = yUnlock - 1
    /\ UNCHANGED <<yDraft, yRange, yTimer, ySyncLock, yUser, yFired, yLast, yBounce,
                   surfaceVars, mergeVars, hookVars, socketVars, joinVars, formatVars,
                   groupVars, authVars>>

(* setTimeout(() => syncLock.current = false, 0) fires, lines 641 and 649 *)
Unlock ==
    /\ yUnlock > 0
    /\ ySyncLock' = FALSE
    /\ yUnlock' = yUnlock - 1
    /\ UNCHANGED <<yDraft, yRange, yTimer, yUser, yFired, yLast, yBounce,
                   surfaceVars, mergeVars, hookVars, socketVars, joinVars, formatVars,
                   groupVars, authVars>>

(* 10 ms pass: zero-delay timeouts and expired timeouts have fired before. *)
Tick ==
    /\ yUnlock = 0
    /\ \A p \in Panes : IF yTimer[p] = <<>> THEN TRUE ELSE yTimer[p][1].left > 0
    /\ \E p \in Panes : yTimer[p] # <<>>
    /\ yTimer' = [p \in Panes |-> IF yTimer[p] = <<>> THEN <<>>
                                  ELSE <<[yTimer[p][1] EXCEPT !.left = @ - 1]>>]
    /\ UNCHANGED <<yDraft, yRange, ySyncLock, yUnlock, yUser, yFired, yLast, yBounce,
                   surfaceVars, mergeVars, hookVars, socketVars, joinVars, formatVars,
                   groupVars, authVars>>

SyncNext ==
    \/ \E p \in Panes, r \in Ranges : UserChange(p, r)
    \/ \E p \in Panes : HandlerFires(p)
    \/ \E p \in Panes, r \in Ranges : FitContent(p, r)
    \/ Unlock
    \/ Tick

(***************************************************************************)
(*     SOCKET: unnamed/part_018 (useMarketDataWebSocket, the draft with    *)
(*     reconnect timers), the user authenticated throughout                *)
(***************************************************************************)
(* MAX_RECONNECT_ATTEMPTS of part_018 line 5 (5), scaled down *)
MaxReconnectAttempts == 2

MaxSockets == 3

(* The sockets that can still deliver an event to their handlers. *)
LiveSockets == {i \in 1..Len(wSockets) : wSockets[i].ready \in {"connecting", "open"}}

(* new WebSocket(wsUrl) stored in webSocketRef.current, part_018 line 56 *)
NewSocket(socks, pair) == Append(socks, [pair |-> pair, ready |-> "connecting"])

(* marketData without klines, part_018 lines 32, 64 and 129 *)
NoData == [symbol |-> 0, klines |-> <<>>]

SocketInit ==
    /\ wPair = 1
    /\ wSockets = NewSocket(<<>>, 1)
    /\ wRef = 1
    /\ wTimers = [s \in Symbols |-> 0]
    /\ wAttempts = 0
    /\ wData = NoData
    /\ wIsConnected = FALSE
    /\ wError = "none"
    /\ wSinceOpen = 0

(* onopen, part_018 lines 58-65 *)
SockOpen(i) ==
    /\ i \in 1..Len(wSockets)
    /\ wSockets[i].ready = "connecting"
    /\ wSockets' = [wSockets EXCEPT ![i].ready = "open"]
    /\ wIsConnected' = TRUE
    /\ wError' = "none"
    /\ wAttempts' = 0
    /\ wSinceOpen' = 0
    /\ wData' = NoData
    /\ UNCHANGED <<wPair, wRef, wTimers,
                   surfaceVars, mergeVars, hookVars, syncVars, joinVars, formatVars,
                   groupVars, authVars>>

(* onmessage with a kline_with_indicators message for symbol m, part_018   *)
(* lines 67-81: the handler compares message.symbol with the pairSymbol of *)
(* the render that created the socket (line 73) and ignores the message    *)
(* when they differ (lines 79-81)                                          *)
SockMessage(i, m, p) ==
    /\ i \in 1..Len(wSockets)
    /\ wSockets[i].ready = "open"
    /\ IF m = wSockets[i].pair
       THEN wData' = [symbol |-> m, klines |-> p]
       ELSE UNCHANGED wData
    /\ UNCHANGED <<wPair, wSockets, wRef, wTimers, wAttempts, wIsConnected,
                   wError, wSinceOpen,
                   surfaceVars, mergeVars, hookVars, syncVars, joinVars, formatVars,
                   groupVars, authVars>>

(* The connection is lost and onclose schedules a reconnect whatever the   *)
(* number of attempts made                                                 *)
SockDropUnbounded(i) ==
    /\ i \in LiveSockets
    /\ wSockets' = [wSockets EXCEPT ![i].ready = "closed"]
    /\ wIsConnected' = FALSE
    /\ wAttempts' = wAttempts + 1
    /\ wTimers' = [wTimers EXCEPT ![wSockets[i].pair] = @ + 1]
    /\ wSinceOpen' = wSinceOpen + 1
    /\ wError' = "connection"
    /\ UNCHANGED <<wPair, wRef, wData,
                   surfaceVars, mergeVars, hookVars, syncVars, joinVars, formatVars,
                   groupVars, authVars>>

(* The connection is lost: onerror, part_018 lines 95-99, then onclose     *)
(* with wasClean false, lines 101-116                                      *)
SockDrop(i) ==
    /\ i \in LiveSockets
    /\ wSockets' = [wSockets EXCEPT ![i].ready = "closed"]
    /\ wIsConnected' = FALSE
    /\ IF wAttempts < MaxReconnectAttempts
       THEN /\ wAttempts' = wAttempts + 1
            /\ wTimers' = [wTimers EXCEPT ![wSockets[i].pair] = @ + 1]
            /\ wSinceOpen' = wSinceOpen + 1
            /\ wError' = "connection"
       ELSE /\ wError' = "reconnect"
            /\ UNCHANGED <<wAttempts, wTimers, wSinceOpen>>
    /\ UNCHANGED <<wPair, wRef, wData,
                   surfaceVars, mergeVars, hookVars, syncVars, joinVars, formatVars,
                   groupVars, authVars>>

(* onclose after close() was called on a socket that kept its handler,     *)
(* part_018 lines 101-116 with wasClean true                               *)
SockClosed(i) ==
    /\ i \in 1..Len(wSockets)
    /\ wSockets[i].ready = "closing"
    /\ wSockets' = [wSockets EXCEPT ![i].ready = "closed"]
    /\ wIsConnected' = FALSE
    /\ UNCHANGED <<wPair, wRef, wTimers, wAttempts, wData, wError, wSinceOpen,
                   surfaceVars, mergeVars, hookVars, syncVars, joinVars, formatVars,
                   groupVars, authVars>>

(* connectWebSocket of the render with pairSymbol = pair, part_018 lines   *)
(* 26-117, applied to the sockets socks and the ref                        *)
connectWebSocket(socks, ref, pair) ==
    IF ref # 0 /\ socks[ref].ready = "open"
    THEN IF socks[ref].pair = pair
         THEN [sockets |-> socks, ref |-> ref]
         ELSE [sockets |-> NewSocket([socks EXCEPT ![ref].ready = "closing"], pair),
               ref |-> Len(socks) + 1]
    ELSE [sockets |-> NewSocket(socks, pair), ref |-> Len(socks) + 1]

(* The reconnect timer of line 110 fires: connectWebSocket of the render   *)
(* that created the lost socket                                            *)
ReconnectTimer(q) ==
    /\ wTimers[q] > 0
    /\ Len(wSockets) < MaxSockets
    /\ wTimers' = [wTimers EXCEPT ![q] = @ - 1]
    /\ \E c \in {connectWebSocket(wSockets, wRef, q)} :
          /\ wSockets' = c.sockets
          /\ wRef' = c.ref
    /\ UNCHANGED <<wPair, wAttempts, wData, wIsConnected, wError, wSinceOpen,
                   surfaceVars, mergeVars, hookVars, syncVars, joinVars, formatVars,
                   groupVars, authVars>>

(* The cleanup of the effect, part_018 lines 133-140 *)
SocketCleanup(socks, ref) ==
    IF ref # 0 /\ socks[ref].ready # "closed"
    THEN [socks EXCEPT ![ref].ready = "closed"]
    ELSE socks

(* pairSymbol changes: the cleanup of the effect of lines 119-141, then    *)
(* the effect with the new connectWebSocket                                *)
ChangePair(s) ==
    /\ s # wPair
    /\ Len(wSockets) < MaxSockets
    /\ wPair' = s
    /\ \E c \in {connectWebSocket(SocketCleanup(wSockets, wRef), 0, s)} :
          /\ wSockets' = c.sockets
          /\ wRef' = c.ref
    /\ UNCHANGED <<wTimers, wAttempts, wData, wIsConnected, wError, wSinceOpen,
                   surfaceVars, mergeVars, hookVars, syncVars, joinVars, formatVars,
                   groupVars, authVars>>

SocketNext ==
    \/ \E i \in 1..MaxSockets : SockOpen(i)
    \/ \E i \in 1..MaxSockets, m \in Symbols, p \in Feeds : SockMessage(i, m, p)
    \/ \E i \in 1..MaxSockets : SockDrop(i)
    \/ \E i \in 1..MaxSockets : SockClosed(i)
    \/ \E q \in Symbols : ReconnectTimer(q)
    \/ \E s \in Symbols : ChangePair(s)

(***************************************************************************)
(*     JOIN: fetchChartData of unnamed/part_009 (lines 84-185) and of      *)
(*     unnamed/part_011 (lines 303-365), families sma_20 and rsi_14        *)
(***************************************************************************)
MaxJoinTime == 2

MaxJoinLen == 2

MaxValue == 1

(* kline.timestamp, milliseconds: the open times of whole seconds *)
KlineTimes == {1000 * i : i \in 1..MaxJoinTime}

(* indicators.timestamps, milliseconds: also times between two klines *)
IndicatorTimes == {500 * i : i \in 2..(2 * MaxJoinTime)}

(* The klines of a response: ascending open times. *)
KlineLists ==
    {k \in UNION {[1..n -> KlineTimes] : n \in 0..MaxJoinLen} :
        \A i \in 1..(Len(k) - 1) : k[i] < k[i + 1]}

(* null in a value array of the payload *)
NullValue == 0

(* A value array of the payload: numbers and nulls, of any length. *)
ValueArrays == UNION {[1..n -> {NullValue} \cup (1..MaxValue)] : n \in 0..MaxJoinLen}

JoinFamilies == {"sma", "rsi"}

Responses ==
    {[klines |-> k, timestamps |-> ts, values |-> v] :
        k \in KlineLists,
        ts \in UNION {[1..n -> IndicatorTimes] : n \in 0..MaxJoinLen},
        v \in [JoinFamilies -> ValueArrays]}

(* undefined *)
Absent == -1

(* indicatorTimestamps.findIndex(ts => ts === klineTimestampMs); 0 for -1 *)
FindIndex(timestamps, t) ==
    IF \E i \in 1..Len(timestamps) : timestamps[i] = t
    THEN CHOOSE i \in 1..Len(timestamps) :
             /\ timestamps[i] = t
             /\ \A j \in 1..(i - 1) : timestamps[j] # t
    ELSE 0

(* getValue, part_009 lines 104-105 *)
getValue(arr, index) ==
    IF index >= 1 /\ index <= Len(arr) /\ arr[index] # NullValue
    THEN arr[index] ELSE Absent

(* A join that takes the nearest earlier indicator timestamp when none is  *)
(* equal.                                                                  *)
ChartablePointCarried(r, t) ==
    LET earlier == {i \in 1..Len(r.timestamps) : r.timestamps[i] <= t}
        index == IF earlier = {} THEN 0
                 ELSE CHOOSE i \in earlier :
                          \A j \in earlier : r.timestamps[j] <= r.timestamps[i]
    IN [time |-> t \div 1000,
        ma |-> getValue(r.values["sma"], index),
        rsi |-> getValue(r.values["rsi"], index)]

(* The candle built for one kline, part_009 lines 107-177 *)
ChartablePoint(r, t) ==
    LET indicatorIndex == FindIndex(r.timestamps, t)
    IN [time |-> t \div 1000,
        ma |-> IF indicatorIndex # 0
               THEN getValue(r.values["sma"], indicatorIndex) ELSE Absent,
        rsi |-> IF indicatorIndex # 0
                THEN getValue(r.values["rsi"], indicatorIndex) ELSE Absent]

(* klines.map(...), part_009 lines 107-178 *)
ChartableData(r) == [i \in 1..Len(r.klines) |-> ChartablePoint(r, r.klines[i])]

NoResponse == [klines |-> <<>>, timestamps |-> <<>>,
               values |-> [f \in JoinFamilies |-> <<>>]]

JoinInit ==
    /\ jResponse = NoResponse
    /\ jMarketData = <<>>
    /\ jChartError = FALSE

(* fetchChartData with the response r, part_009 lines 84-180 *)
FetchChartData(r) ==
    /\ jResponse' = r
    /\ IF Len(r.klines) = 0
       THEN /\ jChartError' = TRUE
            /\ jMarketData' = <<>>
       ELSE /\ jChartError' = FALSE
            /\ jMarketData' = ChartableData(r)
    /\ UNCHANGED <<surfaceVars, mergeVars, hookVars, syncVars, socketVars, formatVars,
                   groupVars, authVars>>

(* fetchChartData, the catch branch, part_009 lines 180-185 *)
FetchChartDataFailed ==
    /\ jResponse' = NoResponse
    /\ jChartError' = TRUE
    /\ jMarketData' = <<>>
    /\ UNCHANGED <<surfaceVars, mergeVars, hookVars, syncVars, socketVars, formatVars,
                   groupVars, authVars>>

JoinNext ==
    \/ FetchChartDataFailed
    \/ \E r \in Responses : FetchChartData(r)

(***************************************************************************)
(*     FORMAT: the values of an indicator on their way to setData, in      *)
(*     unnamed/part_000 (formatLineData, manageLineSeries) and in          *)
(*     unnamed/part_009 with components/KlineChart.tsx (getValue, RSI)     *)
(***************************************************************************)
(* NaN in a value array *)
NaNValue == -2

(* The numbers of a value array. *)
Numbers == 1..MaxValue

(* A value array that may hold null and NaN besides numbers. *)
RawArrays == UNION {[1..n -> {NullValue, NaNValue} \cup Numbers] : n \in 0..MaxJoinLen}

(* indicators.timestamps of part_000: open times of klines *)
TimestampLists == UNION {[1..n -> KlineTimes] : n \in 0..MaxJoinLen}

(* data[i]: undefined beyond the end of the array *)
At(values, i) == IF i \in 1..Len(values) THEN values[i] ELSE Absent

(* isNaN(value): Number(undefined) is NaN *)
IsNaN(value) == value \in {NaNValue, Absent}

(* null as the result of formatLineData *)
NoPoint == [time |-> 0, value |-> Absent]

(* formatLineData, part_000 lines 36-39 *)
formatLineData(timestamp, value) ==
    IF value = NullValue \/ IsNaN(value)
    THEN NoPoint
    ELSE [time |-> timestamp \div 1000, value |-> value]

(* timestamps.map((ts, i) => formatLineData(ts, data[i]))                   *)
(*           .filter(d => d !== null), part_000 lines 132-134              *)
SeriesData(timestamps, values) ==
    SelectSeq([i \in 1..Len(timestamps) |-> formatLineData(timestamps[i], At(values, i))],
              LAMBDA d : d # NoPoint)

(* data.filter(d => d.rsi !== undefined)                                   *)
(*     .map(d => ({ time: d.time, value: d.rsi! })), KlineChart.tsx 945    *)
RsiSeriesData(candles) ==
    LET shown == SelectSeq(candles, LAMBDA d : d.rsi # Absent)
    IN [i \in 1..Len(shown) |-> [time |-> shown[i].time, value |-> shown[i].rsi]]

(* The responses whose rsi_14 array may hold null and NaN. *)
RawResponses ==
    {[klines |-> k, timestamps |-> ts,
      values |-> [f \in JoinFamilies |-> IF f = "rsi" THEN v ELSE <<>>]] :
        k \in KlineLists \ {<<>>}, ts \in TimestampLists, v \in RawArrays}

FormatInit ==
    /\ fIndicators = [timestamps |-> <<>>, data |-> <<>>]
    /\ fSeriesData = <<>>
    /\ fData = <<>>
    /\ fRsiData = <<>>

(* manageLineSeries for one value array, part_000 lines 131-160: an empty  *)
(* seriesData removes the series, any other is handed to setData           *)
ManageLineSeries(timestamps, values) ==
    /\ Len(timestamps) > 0
    /\ fIndicators' = [timestamps |-> timestamps, data |-> values]
    /\ fSeriesData' = SeriesData(timestamps, values)
    /\ UNCHANGED <<fData, fRsiData>>
    /\ UNCHANGED <<surfaceVars, mergeVars, hookVars, syncVars, socketVars, joinVars,
                   groupVars, authVars>>

(* The indicator effect of KlineChart.tsx for the RSI series, lines        *)
(* 1009-1011 with setupIndicator 920 and 945, for the data that            *)
(* fetchChartData of part_009 made of the response r                       *)
SetupRsi(r) ==
    /\ fData' = ChartableData(r)
    /\ fRsiData' = RsiSeriesData(ChartableData(r))
    /\ UNCHANGED <<fIndicators, fSeriesData>>
    /\ UNCHANGED <<surfaceVars, mergeVars, hookVars, syncVars, socketVars, joinVars,
                   groupVars, authVars>>

FormatNext ==
    \/ \E ts \in TimestampLists, v \in RawArrays : ManageLineSeries(ts, v)
    \/ \E r \in RawResponses : SetupRsi(r)

(***************************************************************************)
(*     GROUPS: the Bollinger and MACD blocks of the indicator effect of    *)
(*     unnamed/part_000 (lines 127-287), one parameter set each            *)
(***************************************************************************)
MaxGroupLen == 1

GroupNames == {"bb", "macd"}

(* The series keys of lines 203-205 and 232-234, index 0 *)
GroupKeys(g) ==
    IF g = "bb" THEN {"bb_upper_0", "bb_middle_0", "bb_lower_0"}
    ELSE {"macd_line_0", "macd_signal_0", "macd_hist_0"}

(* The value arrays of one series of a group: null until the indicator    *)
(* has enough candles, a number afterwards                                 *)
GroupArrays ==
    UNION {[1..n -> {NullValue} \cup Numbers] : n \in 1..MaxGroupLen}

(* indicators.bollinger_bands / indicators.macd: undefined, or one set of  *)
(* three arrays                                                            *)
GroupPayloads(g) ==
    {[present |-> FALSE, arrays |-> [k \in GroupKeys(g) |-> <<>>]]}
        \cup {[present |-> TRUE, arrays |-> a] : a \in [GroupKeys(g) -> GroupArrays]}

GroupTimestamps == {ts \in TimestampLists : Len(ts) <= MaxGroupLen}

(* manageLineSeries (131-169) and manageHistogramSeries (171-193) for the  *)
(* three keys of a group, lines 202-206 and 230-236: a key whose           *)
(* seriesData is empty loses its series, any other key gets or keeps one   *)
ManageGroup(refs, timestamps, g, payload) ==
    IF payload.present
    THEN (refs \ GroupKeys(g))
             \cup {k \in GroupKeys(g) : Len(SeriesData(timestamps, payload.arrays[k])) > 0}
    ELSE refs

(* lines 250-268 *)
activeGroupKeys(ind) ==
    UNION {GroupKeys(g) : g \in {h \in GroupNames : ind[h].present}}

GroupInit ==
    /\ gIndicators = [timestamps |-> <<>>,
                      bb |-> [present |-> FALSE,
                              arrays |-> [k \in GroupKeys("bb") |-> <<>>]],
                      macd |-> [present |-> FALSE,
                                arrays |-> [k \in GroupKeys("macd") |-> <<>>]]]
    /\ gSeriesRefs = {}

(* The indicator block of the effect of part_000, lines 127-287, for the   *)
(* two groups: nothing is done without timestamps (128); else the groups   *)
(* are managed and the series whose key is not active are removed (270-285) *)
IndicatorPass(timestamps, bb, macd) ==
    /\ gIndicators' = [timestamps |-> timestamps, bb |-> bb, macd |-> macd]
    /\ gIndicators' # gIndicators
    /\ gSeriesRefs' =
          (IF Len(timestamps) = 0 THEN gSeriesRefs
           ELSE ManageGroup(ManageGroup(gSeriesRefs, timestamps, "bb", bb),
                            timestamps, "macd", macd)
                    \cap activeGroupKeys(gIndicators'))
    /\ UNCHANGED <<surfaceVars, mergeVars, hookVars, syncVars, socketVars, joinVars,
                   formatVars, authVars>>

GroupNext ==
    \E timestamps \in GroupTimestamps, bb \in GroupPayloads("bb"),
       macd \in GroupPayloads("macd") : IndicatorPass(timestamps, bb, macd)

(***************************************************************************)
(*     AUTH: the response interceptors of unnamed/part_021 (lines 90-137), *)
(*     unnamed/part_023 (26-68) and unnamed/part_022 (26-68)               *)
(***************************************************************************)
MaxRequests == 2

AuthDrafts == {"part_021", "part_023", "part_022"}

(* error.response.status of a request; 200 stands for every success, 500   *)
(* for every failure other than 401                                        *)
Statuses == {200, 401, 500}

(* originalRequest.url: the refresh endpoint as the interceptor spells it, *)
(* the login endpoint, any other endpoint                                  *)
Urls == {"data", "login", "refresh"}

NewRequest(url) ==
    [url |-> url, retry |-> FALSE, phase |-> "sent", refreshes |-> 0, replays |-> 0]

AuthInit ==
    /\ aDraft \in AuthDrafts
    /\ aAccessToken \in {"none", "old"}
    /\ aRefreshToken \in BOOLEAN
    /\ aRequests = [r \in 1..MaxRequests |->
                       [url |-> "data", retry |-> FALSE, phase |-> "idle",
                        refreshes |-> 0, replays |-> 0]]

(* A request config that is never marked as retried. *)
MarkRetrySkipped(originalRequest) == originalRequest

(* originalRequest._retry = true: part_021 line 97, part_023 line 34,      *)
(* part_022 line 41                                                        *)
MarkRetry(originalRequest) == [originalRequest EXCEPT !.retry = TRUE]

(* part_022 lines 33-38: a 401 of the refresh endpoint itself *)
RefreshEndpointFailed(d, originalRequest, status) ==
    d = "part_022" /\ status = 401 /\ originalRequest.url = "refresh"

(* The condition under which the interceptor tries a refresh: part_021     *)
(* line 96, part_023 line 33, part_022 line 40                             *)
ShouldRefresh(d, originalRequest, status) ==
    /\ status = 401
    /\ ~originalRequest.retry
    /\ IF d = "part_022" THEN originalRequest.url # "login"
       ELSE originalRequest.url # "refresh"

(* The application calls axiosInstance with a new request config. *)
Send(r, url) ==
    /\ aRequests[r].phase \in {"idle", "resolved", "rejected"}
    /\ aRequests' = [aRequests EXCEPT ![r] = NewRequest(url)]
    /\ UNCHANGED <<aDraft, aAccessToken, aRefreshToken>>
    /\ UNCHANGED <<surfaceVars, mergeVars, hookVars, syncVars, socketVars, joinVars,
                   formatVars, groupVars>>

(* The response of a request made through axiosInstance arrives, the first *)
(* time or replayed: the response interceptor runs up to its first await.  *)
(* Without a refresh token part_021 (100-108) removes the access token and *)
(* the two others (47-55, 53-58) remove both tokens.                       *)
Respond(r, status) ==
    /\ aRequests[r].phase \in {"sent", "replayed"}
    /\ IF status = 200
       THEN /\ aRequests' = [aRequests EXCEPT ![r].phase = "resolved"]
            /\ UNCHANGED <<aAccessToken, aRefreshToken>>
       ELSE IF RefreshEndpointFailed(aDraft, aRequests[r], status)
       THEN /\ aRequests' = [aRequests EXCEPT ![r].phase = "rejected"]
            /\ aAccessToken' = "none"
            /\ aRefreshToken' = FALSE
       ELSE IF ShouldRefresh(aDraft, aRequests[r], status)
       THEN IF aRefreshToken
            THEN /\ aRequests' = [aRequests EXCEPT
                                    ![r] = [MarkRetry(@) EXCEPT
                                              !.phase = "refreshing",
                                              !.refreshes = @ + 1]]
                 /\ UNCHANGED <<aAccessToken, aRefreshToken>>
            ELSE /\ aRequests' = [aRequests EXCEPT
                                    ![r] = [MarkRetry(@) EXCEPT !.phase = "rejected"]]
                 /\ aAccessToken' = "none"
                 /\ aRefreshToken' = FALSE
       ELSE /\ aRequests' = [aRequests EXCEPT ![r].phase = "rejected"]
            /\ UNCHANGED <<aAccessToken, aRefreshToken>>
    /\ UNCHANGED aDraft
    /\ UNCHANGED <<surfaceVars, mergeVars, hookVars, syncVars, socketVars, joinVars,
                   formatVars, groupVars>>

(* The axios.post of the refresh settles (it does not pass through the     *)
(* interceptors of axiosInstance). On success the new access token is      *)
(* stored and the original request is replayed through axiosInstance       *)
(* (part_021 114-123, part_023 41-46, part_022 48-52); on failure the      *)
(* catch block removes both tokens and rejects (124-133, 56-63, 59-64).    *)
RefreshRespond(r, status) ==
    /\ aRequests[r].phase = "refreshing"
    /\ IF status = 200
       THEN /\ aAccessToken' = "fresh"
            /\ aRequests' = [aRequests EXCEPT ![r].phase = "replayed",
                                              ![r].replays = @ + 1]
            /\ UNCHANGED aRefreshToken
       ELSE /\ aAccessToken' = "none"
            /\ aRefreshToken' = FALSE
            /\ aRequests' = [aRequests EXCEPT ![r].phase = "rejected"]
    /\ UNCHANGED aDraft
    /\ UNCHANGED <<surfaceVars, mergeVars, hookVars, syncVars, socketVars, joinVars,
                   formatVars, groupVars>>

AuthNext ==
    \/ \E r \in 1..MaxRequests, url \in Urls : Send(r, url)
    \/ \E r \in 1..MaxRequests, status \in Statuses : Respond(r, status)
    \/ \E r \in 1..MaxRequests, status \in Statuses : RefreshRespond(r, status)

(***************************************************************************)
(*                          The specifications                             *)
(***************************************************************************)
vars == <<surfaceVars, mergeVars, hookVars, syncVars, socketVars, joinVars,
          formatVars, groupVars, authVars>>

ReconcileIdle == ReconcileInit /\ draft = "pane"

SyncIdle == SyncInit /\ yDraft = "guarded"

AuthIdle == AuthInit /\ aDraft = "part_021" /\ aAccessToken = "old" /\ aRefreshToken

InitReconcile == ReconcileInit /\ MergeInit /\ HookInit /\ SyncIdle /\ SocketInit /\ JoinInit /\ FormatInit /\ GroupInit /\ AuthIdle

InitMerge == ReconcileIdle /\ MergeInit /\ HookInit /\ SyncIdle /\ SocketInit /\ JoinInit /\ FormatInit /\ GroupInit /\ AuthIdle

InitHook == ReconcileIdle /\ MergeInit /\ HookInit /\ SyncIdle /\ SocketInit /\ JoinInit /\ FormatInit /\ GroupInit /\ AuthIdle

InitSync == ReconcileIdle /\ MergeInit /\ HookInit /\ SyncInit /\ SocketInit /\ JoinInit /\ FormatInit /\ GroupInit /\ AuthIdle

InitJoin == ReconcileIdle /\ MergeInit /\ HookInit /\ SyncIdle /\ SocketInit /\ JoinInit /\ FormatInit /\ GroupInit /\ AuthIdle

InitSocket == ReconcileIdle /\ MergeInit /\ HookInit /\ SyncIdle /\ SocketInit /\ JoinInit /\ FormatInit /\ GroupInit /\ AuthIdle

SpecReconcile == InitReconcile /\ [][ReconcileNext]_vars

SpecMerge == InitMerge /\ [][MergeNext]_vars

SpecHook == InitHook /\ [][HookNext]_vars

SpecSync == InitSync /\ [][SyncNext]_vars

(* The timeouts of setTimeout fire: a pending zero-delay timeout runs, time *)
(* passes, and a timeout whose delay has passed runs its handler.          *)
SyncFairness ==
    /\ WF_vars(Unlock)
    /\ WF_vars(Tick)
    /\ WF_vars(\E p \in Panes : HandlerFires(p))

SpecSyncLive == InitSync /\ [][SyncNext]_vars /\ SyncFairness

SpecSocket == InitSocket /\ [][SocketNext]_vars

SpecJoin == InitJoin /\ [][JoinNext]_vars

InitFormat == ReconcileIdle /\ MergeInit /\ HookInit /\ SyncIdle /\ SocketInit /\ JoinInit /\ FormatInit /\ GroupInit /\ AuthIdle

SpecFormat == InitFormat /\ [][FormatNext]_vars

InitGroups == ReconcileIdle /\ MergeInit /\ HookInit /\ SyncIdle /\ SocketInit /\ JoinInit /\ FormatInit /\ GroupInit /\ AuthIdle

SpecGroups == InitGroups /\ [][GroupNext]_vars

InitAuth == ReconcileIdle /\ MergeInit /\ HookInit /\ SyncIdle /\ SocketInit /\ JoinInit /\ FormatInit /\ GroupInit /\ AuthInit

SpecAuth == InitAuth /\ [][AuthNext]_vars

(***************************************************************************)
(*                     The properties of the engine                        *)
(***************************************************************************)

(* The drawing-surface calls that create or remove a series or a line. *)
SurfaceChanges ==
    {"addLineSeries", "addHistogramSeries", "removeSeries",
     "createPriceLine", "removePriceLine", "remove"}

(* The calls of the last render that added a series titled key. *)
AddOps(key) ==
    {i \in 1..Len(ops) : ops[i].target = key
                         /\ ops[i].op \in {"addLineSeries", "addHistogramSeries"}}

(* C1: a reconciliation pass that repeats the previous pass with the same  *)
(* data and the same toggles creates and removes nothing on the drawing    *)
(* surface: neither a series nor a price line.                             *)
C1_RepeatedPassChangesNothing ==
    trail = "rerun" => \A i \in 1..Len(ops) : ops[i].op \notin SurfaceChanges

(* C2: every series key has at most one live series on the drawing surface *)
(* after any sequence of passes, no pass adds a series for a key twice,    *)
(* and the pass that adds a series for a key leaves exactly one live       *)
(* series of that key, the one its ref holds.                              *)
C2_OneLiveSeriesPerKey ==
    \A key \in DraftKeys(draft) :
        /\ Cardinality(LiveSeries(key)) <= 1
        /\ Cardinality(AddOps(key)) <= 1
        /\ AddOps(key) # {} => /\ Cardinality(LiveSeries(key)) = 1
                               /\ seriesRef[key] \in LiveSeries(key)

(* The RSI series was removed by toggling RSI off, and the pass that       *)
(* followed the toggle back on has added exactly one series for its key.   *)
C2_EnsureAfterRemove ==
    /\ trail = "rsiOn"
    /\ Cardinality(AddOps(RsiKey)) = 1
    /\ Cardinality(LiveSeries(RsiKey)) = 1

StrictlyAscending(s) == \A i \in 1..(Len(s) - 1) : s[i].time < s[i + 1].time

CandlesAt(t) == {i \in 1..Len(mSeries) : mSeries[i].time = t}

UpdateDue ==
    /\ ~mError /\ mUpdateDue /\ ~mDataDue
    /\ mLastUpdate # Null /\ mSeries # <<>>

LastTime == mSeries[Len(mSeries)].time

(* C4: a render that applies an update whose time is before the time of    *)
(* the last candle leaves the candle series as it was and raises no error. *)
C4_StaleUpdateDiscarded ==
    [][(IF UpdateDue THEN mLastUpdate.time < LastTime ELSE FALSE) /\ ~mUpdateDue'
          => mSeries' = mSeries /\ ~mError']_vars

C6_CapacityKept ==
    /\ Len(hKlines) <= MaxKlinesInState
    /\ Len(hChartKlines) <= MaxKlinesInState
    /\ Len(hLastFed) > MaxKlinesInState
          => hKlines = SliceLast(hLastFed, MaxKlinesInState)

(* C7: after a user range change, the handler of each pane applies a range *)
(* at most once, and no handler run that answers a synchronised update     *)
(* changes the range of a pane again.                                      *)
C7_NoPingPong ==
    /\ ~yBounce
    /\ \A p \in Panes : yFired[p] <= 1

(* C8: in the guarded draft a handler run that finds the flag set applies  *)
(* nothing, and the handler run for the event a pane emits on a            *)
(* synchronised update finds the flag set.                                 *)
C8_EchoIgnored ==
    yDraft = "guarded" =>
        /\ yLast.locked => ~yLast.applied
        /\ yLast.echo => yLast.locked

(* The price lines on the surface that are RSI threshold lines. *)
RsiLinesDrawn ==
    UNION {{pl \in chart[id].priceLines : pl[1] \in DraftLines(draft)} :
              id \in DOMAIN chart}

(* C9: from RSI drawn with points and its two threshold lines, the pass    *)
(* after toggling RSI off leaves no RSI series and no RSI line, on the     *)
(* surface and in the refs; the pass after toggling it back on with the    *)
(* same data leaves exactly one RSI series and exactly two lines.          *)
C9_RsiOffThenOn ==
    /\ trail = "rsiOff" => RsiGone /\ RsiLinesDrawn = {}
    /\ trail = "rsiOn" => RsiFull /\ Cardinality(RsiLinesDrawn) = 2

(* RSI was toggled off and on again and is drawn with its two lines. *)
C9_RsiBackOn ==
    /\ trail = "rsiOn"
    /\ RsiFull
    /\ Cardinality(RsiLinesDrawn) = 2

(* C10: a pass in which a family is toggled visible but has no points      *)
(* after filtering creates no series for it: a family without a series     *)
(* stays without one, in the refs and on the surface.                      *)
C10_EmptyDataNoSeries ==
    [][\A f \in DraftFields(draft) : \A k \in FamilyKeys(draft, f) :
          (seriesRef[k] = Null /\ show'[f] /\ DataFilter(data', f, 1) = <<>>)
              => (seriesRef'[k] = Null
                  /\ \A id \in DOMAIN chart' : chart'[id].title # k)]_vars

(* shouldExist of a family: its toggle is on and the data has points for it. *)
ShouldExist(f) == show[f] /\ DataFilter(data, f, 1) # <<>>

(* C11: after every pass, every series of every family has a handle (a     *)
(* ref that holds a live series) exactly if the family's toggle is on and  *)
(* its points are not empty; no series is retained hidden or emptied.      *)
C11_HandleIffShouldExist ==
    mounted =>
        \A f \in DraftFields(draft) : \A k \in FamilyKeys(draft, f) :
            /\ (seriesRef[k] # Null) <=> ShouldExist(f)
            /\ (LiveSeries(k) # {}) <=> ShouldExist(f)

(* C12: once the pass that follows a symbol or interval change has run, no *)
(* series and no price line of the previous selection is left: the         *)
(* drawing surface is empty and every series ref and line ref is empty.    *)
C12_SelectionChangeResets ==
    trail = "reset" =>
        /\ DOMAIN chart = {}
        /\ \A k \in DraftKeys(draft) : seriesRef[k] = Null
        /\ \A l \in DraftLines(draft) : lineRef[l] = Null

(* C13: the arrival of the result of a historical fetch that was requested *)
(* for a selection other than the current one, success or failure, leaves  *)
(* the klines handed to the chart and the klines of the hook unchanged.    *)
C13_StaleResponseDiscarded ==
    [][\A s \in Symbols :
          (s # hSelected /\ hFetching'[s] < hFetching[s])
              => (hChartKlines' = hChartKlines /\ hKlines' = hKlines)]_vars

(* C14: at no time is there a second update source or a source bound to a  *)
(* previous selection: every socket that can still deliver is the one of   *)
(* webSocketRef and is connected for the current pair.                     *)
C14_OneSourceOfCurrentSelection ==
    \A i \in LiveSockets : i = wRef /\ wSockets[i].pair = wPair

(* C15: while the selection stays the same, a transport event (a socket    *)
(* lost, closed, re-created by the reconnect timer or opened again) leaves *)
(* the market data held for that selection unchanged.                      *)
C15_TransportEventsKeepData ==
    [][(/\ wSockets' # wSockets
        /\ wPair' = wPair
        /\ wData.symbol = wPair
        /\ wData.klines # <<>>) => wData' = wData]_vars

(* C16: a stream message never replaces the whole series of the hook: a    *)
(* change of the klines that is not the arrival of a historical fetch      *)
(* keeps every kline held before, except klines older than the first one   *)
(* kept when the series is at capacity.                                    *)
C16_StreamNeverReplaces ==
    [][(hFetching' = hFetching /\ hKlines' # hKlines)
          => \A i \in 1..Len(hKlines) :
                \/ hKlines[i] \in Range(hKlines')
                \/ /\ Len(hKlines') = MaxKlinesInState
                   /\ hKlines[i] < hKlines'[1]]_vars

(* The render changes the toggle or the points of family f and of no other *)
(* family.                                                                 *)
OnlyFamilyChanges(f) ==
    /\ mounted
    /\ \/ show'[f] # show[f]
       \/ DataFilter(data', f, 1) # DataFilter(data, f, 1)
    /\ \A g \in DraftFields(draft) \ {f} :
          /\ show'[g] = show[g]
          /\ DataFilter(data', g, 1) = DataFilter(data, g, 1)

(* C17: a pass triggered by a change of one family's toggle or data keeps  *)
(* the series handle and the drawn series of every other family as they    *)
(* were: none is created and none is removed.                              *)
C17_FamiliesIndependent ==
    [][\A f \in DraftFields(draft) :
          OnlyFamilyChanges(f) =>
              \A g \in DraftFields(draft) \ {f} : \A k \in FamilyKeys(draft, g) :
                  /\ seriesRef'[k] = seriesRef[k]
                  /\ LiveSeries(k)' = LiveSeries(k)]_vars

(* The series and price lines of family f: the targets of its surface calls. *)
FamilyTargets(f) ==
    FamilyKeys(draft, f) \cup UNION {Range(LinesOf(k)) : k \in FamilyKeys(draft, f)}

(* C18: in a pass where a family should exist and the handles of its       *)
(* series are already present, every drawing-surface call made for that    *)
(* family's series and price lines is a setData.                           *)
C18_PresentHandleOnlySetData ==
    [][\A f \in DraftFields(draft) :
          (/\ mounted
           /\ show'[f] /\ DataFilter(data', f, 1) # <<>>
           /\ \A k \in FamilyKeys(draft, f) :
                 seriesRef[k] # Null /\ LiveSeries(k) # {})
              => \A i \in 1..Len(ops') :
                    ops'[i].target \in FamilyTargets(f) => ops'[i].op = "setData"]_vars

(* C19: no pass removes a series from the drawing surface while a price    *)
(* line is still attached to it: the price lines are removed before the    *)
(* series is.                                                              *)
C19_LinesRemovedBeforeSeries ==
    \A i \in 1..Len(ops) : ops[i].op # "priceLinesDropped"

(* C20: after any sequence of passes every series carries at most one      *)
(* price line per purpose (RSI overbought, RSI oversold, each Fibonacci    *)
(* level), and every price line on the drawing surface is the one its      *)
(* purpose's ref holds.                                                    *)
C20_OneTrackedLinePerPurpose ==
    \A id \in DOMAIN chart :
        /\ \A x, y \in chart[id].priceLines : x[1] = y[1] => x = y
        /\ \A x \in chart[id].priceLines :
              x[1] \in DOMAIN lineRef /\ lineRef[x[1]] = x

(* A pass has removed a Fibonacci line and created it again, and the       *)
(* candlestick series carries its two level lines.                         *)
C20_FibonacciReplaced ==
    /\ draft = "main"
    /\ \E i, j \in 1..Len(ops) :
          /\ i < j
          /\ ops[i] = SurfaceOp("removePriceLine", "fibLevel1")
          /\ ops[j] = SurfaceOp("createPriceLine", "fibLevel1")
    /\ Cardinality(chart[seriesRef["Candles"]].priceLines) = 2

(* C21: no pass calls setData or applyOptions on a series that is no       *)
(* longer on the drawing surface: the series each such call is made on is  *)
(* a series of the chart.                                                  *)
C21_NoCallOnRemovedSeries ==
    \A i \in 1..Len(ops) :
        ops[i].op \in {"setData", "applyOptions"}
            => seriesRef[ops[i].target] \in DOMAIN chart

(* C22: every candle handed to the chart carries, for every family, either *)
(* no value or the value the response holds at an indicator timestamp      *)
(* equal to the candle's own kline timestamp; a candle whose kline         *)
(* timestamp equals no indicator timestamp of that response carries no     *)
(* value at all.                                                           *)
C22_ExactTimestampJoin ==
    /\ Len(jMarketData) \in {0, Len(jResponse.klines)}
    /\ \A k \in 1..Len(jMarketData) :
          LET t == jResponse.klines[k]
              same == {i \in 1..Len(jResponse.timestamps) : jResponse.timestamps[i] = t}
              held(f) == {jResponse.values[f][i] :
                             i \in same \cap (1..Len(jResponse.values[f]))}
                         \ {NullValue}
          IN /\ jMarketData[k].time * 1000 = t
             /\ jMarketData[k].ma \in {Absent} \cup held("sma")
             /\ jMarketData[k].rsi \in {Absent} \cup held("rsi")

(* A candle lies between two indicator timestamps that both carry values   *)
(* and has none itself, while another candle of the response has its       *)
(* value.                                                                  *)
C22_UnmatchedCandleAbsent ==
    /\ Len(jMarketData) = 2
    /\ jMarketData[1].rsi # Absent /\ jMarketData[1].ma # Absent
    /\ jMarketData[2].rsi = Absent /\ jMarketData[2].ma = Absent
    /\ \E i \in 1..Len(jResponse.timestamps) :
          /\ jResponse.timestamps[i] < jResponse.klines[2]
          /\ jResponse.timestamps[i] > jResponse.klines[1]
          /\ getValue(jResponse.values["rsi"], i) # Absent

(* C23: no point handed to setData carries null, undefined or NaN, or any  *)
(* value other than the number its source held; this for the line series   *)
(* of part_000 and for the RSI series of KlineChart.tsx fed by part_009.   *)
C23_OnlyNumbersReachSetData ==
    /\ \A i \in 1..Len(fSeriesData) :
          /\ fSeriesData[i].value \in Numbers
          /\ \E j \in 1..Len(fIndicators.timestamps) :
                /\ fIndicators.timestamps[j] = fSeriesData[i].time * 1000
                /\ At(fIndicators.data, j) = fSeriesData[i].value
    /\ \A i \in 1..Len(fRsiData) : fRsiData[i].value \in Numbers

(* C23, the part that holds: the points of part_000 alone.                 *)
C23_FormatLineDataFilters ==
    \A i \in 1..Len(fSeriesData) : fSeriesData[i].value \in Numbers

OtherAxis(axis) == IF axis = "left" THEN "right" ELSE "left"

(* The axis for a group not yet assigned in the pass: the preferred axis   *)
(* if it is free, else the other axis if it is free, else 'left'.          *)
Allocated(used, preference) ==
    IF preference \notin used THEN preference
    ELSE IF OtherAxis(preference) \notin used THEN OtherAxis(preference)
    ELSE "left"

(* The axes of one pass over the current toggles and data: the groups in   *)
(* the order of the effect, each with the preference the effect passes.    *)
PassAxes ==
    LET macd == Allocated({}, "left")
        u1 == IF ShouldExist("macd") THEN {macd} ELSE {}
        rsi == Allocated(u1, IF u1 = {"left"} THEN "right" ELSE "left")
        u2 == IF ShouldExist("rsi") THEN u1 \cup {rsi} ELSE u1
        adx == Allocated(u2, IF "left" \notin u2 THEN "left" ELSE "right")
        u3 == IF ShouldExist("adx") THEN u2 \cup {adx} ELSE u2
        atr == Allocated(u3, IF "left" \notin u3 THEN "left" ELSE "right")
    IN [MACD |-> macd, Signal |-> macd, Histogram |-> macd,
        RSI |-> rsi, ADX |-> adx, ATR |-> atr]

(* C24: after a pass of the indicator pane every live series sits on the   *)
(* axis that allocate yields for its group: the preferred axis if free,    *)
(* else the other axis if free, else 'left' when both are occupied by      *)
(* other groups; the three MACD series share the axis of their group.      *)
C24_AllocateAsStated ==
    draft = "pane" =>
        \A key \in DraftKeys("pane") :
            seriesRef[key] # Null
                => chart[seriesRef[key]].priceScaleId = PassAxes[key]

(* MACD holds the left axis and RSI the right one, and ADX and ATR, whose  *)
(* preferred axis and the other one are both taken, are put on 'left'.     *)
C24_BothOccupiedFallsLeft ==
    /\ draft = "pane"
    /\ \A key \in DraftKeys("pane") : seriesRef[key] \in DOMAIN chart
    /\ chart[seriesRef["MACD"]].priceScaleId = "left"
    /\ chart[seriesRef["RSI"]].priceScaleId = "right"
    /\ chart[seriesRef["ADX"]].priceScaleId = "left"
    /\ chart[seriesRef["ATR"]].priceScaleId = "left"

(* The surface a pass with the current toggles and data builds from        *)
(* nothing: no series, no lines, no history.                               *)
FromScratch ==
    Effect([chart |-> CreatedChart(draft),
            sref |-> [k \in DraftKeys(draft) |-> Null],
            lref |-> [l \in DraftLines(draft) |-> Null],
            ops |-> <<>>, leftScaleUsed |-> FALSE, rightScaleUsed |-> FALSE,
            assigned |-> [t \in {} |-> "left"],
            scaleVisible |-> [left |-> FALSE, right |-> FALSE]], show, data)

(* C25: in the indicator pane of either draft the axis of every live       *)
(* series is the axis that a pass over the current toggles and data        *)
(* assigns from scratch, whatever toggles came before.                     *)
C25_AxisFromTogglesAndDataAlone ==
    draft \in {"pane", "first"} =>
        \A key \in DraftKeys(draft) :
            (seriesRef[key] \in DOMAIN chart /\ FromScratch.sref[key] # Null)
                => chart[seriesRef[key]].priceScaleId
                       = FromScratch.chart[FromScratch.sref[key]].priceScaleId

(* The families of the indicator pane that are switched on and have data,  *)
(* in the order of their declaration.                                      *)
VisibleFamilies ==
    SelectSeq(<<"macd", "rsi", "adx", "atr">>, LAMBDA f : ShouldExist(f))

(* The axis the series of a family sit on. *)
FamilyAxes(f) == {chart[seriesRef[key]].priceScaleId : key \in FamilyKeys("pane", f)}

(* C26: with three or more families visible with data in the indicator     *)
(* pane, every visible family sits on one axis, the first two in           *)
(* declaration order on distinct axes and every later one on one of those  *)
(* two, and the axes are those a pass from scratch assigns for the same    *)
(* toggles and data.                                                       *)
C26_LaterFamiliesCollapse ==
    (draft = "pane" /\ Len(VisibleFamilies) >= 3) =>
        LET v == VisibleFamilies
        IN /\ \A i \in 1..Len(v) :
                 /\ \A key \in FamilyKeys("pane", v[i]) : seriesRef[key] \in DOMAIN chart
                 /\ Cardinality(FamilyAxes(v[i])) = 1
           /\ FamilyAxes(v[1]) # FamilyAxes(v[2])
           /\ \A i \in 3..Len(v) : FamilyAxes(v[i]) \subseteq FamilyAxes(v[1]) \cup FamilyAxes(v[2])
           /\ \A i \in 1..Len(v) : \A key \in FamilyKeys("pane", v[i]) :
                 chart[seriesRef[key]].priceScaleId
                     = FromScratch.chart[FromScratch.sref[key]].priceScaleId

(* MACD is off; RSI, ADX and ATR are visible with data: RSI and ADX hold   *)
(* the two axes and ATR shares the axis of RSI.                            *)
C26_ThreeWithoutMacd ==
    /\ draft = "pane"
    /\ VisibleFamilies = <<"rsi", "adx", "atr">>
    /\ FamilyAxes("rsi") = {"left"}
    /\ FamilyAxes("adx") = {"right"}
    /\ FamilyAxes("atr") = {"left"}

(* The debounced handler of pane p holds an event of the user. *)
UserEventPending(p) ==
    yTimer[p] # <<>> /\ ~yTimer[p][1].echo /\ ~yTimer[p][1].fit

(* C27: the pending event of a burst of user range changes on one pane     *)
(* ends in one of two ways only: a later change of that pane by the user   *)
(* or by fitContent replaces it (the burst goes on), or its handler runs   *)
(* and leaves the other pane on the range of that last event.              *)
C27_BurstAppliedOnce ==
    [][\A p \in Panes :
          UserEventPending(p) =>
              \/ /\ yTimer'[p] # <<>>
                 /\ ~yTimer'[p][1].echo
                 /\ \/ yTimer'[p][1].range = yTimer[p][1].range
                    \/ yUser' # yUser
                    \/ yTimer'[p][1].fit
              \/ /\ yTimer'[p] = <<>>
                 /\ yRange'[Other(p)] = yTimer[p][1].range]_vars

(* C28: no run of a synchronisation handler for an event that a            *)
(* reconciliation pass caused copies a range from one pane to the other.   *)
C28_PassNeverCopies == ~(yLast.fit /\ yLast.applied)

(* C29: when the socket closes without a teardown, polling becomes active; *)
(* while no socket opens and the selection stays, the polling interval     *)
(* stays in place; and no tick of the interval goes by without a fetch.    *)
C29_PollingFallback ==
    [][/\ (hWs # "none" /\ hWs' = "none") => (hIsPolling' /\ hPollTimer')
       /\ (hPollTimer /\ hSelected' = hSelected /\ hWs' # "open") => hPollTimer'
       /\ hPolled' # "noop"]_vars

(* Every debounce timeout and every zero-delay timeout has fired. *)
TimersDone == yUnlock = 0 /\ \A p \in Panes : yTimer[p] = <<>>

(* A range is changed from outside the synchroniser: by the user or by    *)
(* the fitContent of a pass.                                               *)
ExternalChange ==
    \/ \E p \in Panes, r \in Ranges : UserChange(p, r)
    \/ \E p \in Panes, r \in Ranges : FitContent(p, r)

(* The synchroniser at rest: flag clear, both panes on the same range. *)
Quiescent == ~ySyncLock /\ yRange["main"] = yRange["indicator"]

C31_OnlyCurrentSelectionApplied ==
    [][(wData' # wData /\ wData'.symbol # 0) => wData'.symbol = wPair]_vars

(* A socket is lost in this step: it could still deliver and is closed     *)
(* without a change of the selection.                                      *)
UncleanClose ==
    /\ wPair' = wPair
    /\ \E i \in LiveSockets : wSockets'[i].ready = "closed"

(* C32: at most MaxReconnectAttempts reconnects are scheduled without a    *)
(* socket opening in between; every successful open resets the attempt     *)
(* counter to 0; a reconnect is scheduled only when a socket is lost; and  *)
(* when a socket is lost after MaxReconnectAttempts reconnects were         *)
(* scheduled, the error is recorded and no further reconnect is scheduled. *)
C32_ReconnectBounded ==
    /\ [](wSinceOpen <= MaxReconnectAttempts)
    /\ [][/\ ((\E i \in 1..Len(wSockets) : /\ wSockets[i].ready = "connecting"
                                           /\ wSockets'[i].ready = "open")
                => wAttempts' = 0)
           /\ ((SumOver(wTimers', Symbols) > SumOver(wTimers, Symbols))
                => (UncleanClose /\ wSinceOpen < MaxReconnectAttempts))
           /\ ((UncleanClose /\ wSinceOpen = MaxReconnectAttempts)
                => (wError' = "reconnect" /\ wTimers' = wTimers))]_vars

(* The attempts are used up: a socket was lost after MaxReconnectAttempts  *)
(* reconnects and the error of lines 112-113 is recorded.                  *)
C32_AttemptsUsedUp ==
    /\ wError = "reconnect"
    /\ wSinceOpen = MaxReconnectAttempts
    /\ \A q \in Symbols : wTimers[q] = 0

(* The state the hook of part_017 returns and the polling timer. *)
HookState ==
    <<hKlines, hIsConnected, hIsConnecting, hIsPolling, hPollTimer, hWs, hLastFed>>

(* C33: once the cleanup of the effect has dropped a socket, an open,      *)
(* message, error or close event of that socket changes nothing in the     *)
(* state of the hook and starts no polling.                                *)
C33_DroppedSocketIsSilent ==
    [][hOldEvents' > hOldEvents => HookState' = HookState]_vars

(* A dropped socket has fired events while the socket that replaced it is  *)
(* open and has delivered klines.                                          *)
C33_EventsAfterCleanup ==
    /\ hOldEvents = MaxOldEvents
    /\ hWs = "open"
    /\ hKlines # <<>>

(* C34: in the hook with the polling fallback no two of isConnected,       *)
(* isConnecting and isPolling are true together, and isPolling is true     *)
(* exactly when the polling interval is registered.                        *)
C34_StatusFlagsExclusive ==
    /\ ~(hIsConnected /\ hIsConnecting)
    /\ ~(hIsConnected /\ hIsPolling)
    /\ ~(hIsConnecting /\ hIsPolling)
    /\ hIsPolling <=> hPollTimer

(* Polling is active after a socket was lost, and its interval has ticked. *)
C34_PollingActive ==
    /\ hIsPolling
    /\ hPollTimer
    /\ hWs = "none"
    /\ hPolled # "none"

(* C35: after every pass of the indicator pane each live series sits on a  *)
(* price axis that is visible, and an axis is visible only if at least one *)
(* live series sits on it.                                                 *)
C35_AxesMatchSeries ==
    draft \in {"pane", "first"} =>
        /\ \A id \in DOMAIN chart : scaleVisible[chart[id].priceScaleId]
        /\ \A axis \in {"left", "right"} :
               scaleVisible[axis]
                   => \E id \in DOMAIN chart : chart[id].priceScaleId = axis

(* C36: after every pass the three series of the MACD group are all        *)
(* present or all absent, and so are the three Bollinger band series.      *)
C36_GroupsWhole ==
    \A g \in GroupNames :
        GroupKeys(g) \cap gSeriesRefs \in {{}, GroupKeys(g)}

(* C37: once the chart component is unmounted, no series and no price line *)
(* is left on the drawing surface and no ref still holds a series or a     *)
(* price line.                                                             *)
C37_UnmountReleasesAll ==
    unmounted =>
        /\ DOMAIN chart = {}
        /\ \A k \in DOMAIN seriesRef : seriesRef[k] = Null
        /\ \A l \in DOMAIN lineRef : lineRef[l] = Null

(* The same for the component of unnamed/part_000 alone. *)
C37_RegistryUnmountReleasesAll ==
    draft = "registry" => C37_UnmountReleasesAll

(* The component of unnamed/part_000 is unmounted while it shows the RSI    *)
(* series with its two lines.                                              *)
C37_RegistryUnmountedWithLines ==
    /\ draft = "registry"
    /\ unmounted
    /\ \E i \in 1..Len(ops) : ops[i] = SurfaceOp("removePriceLine", "rsi_rsi_14_pl_70")
    /\ \E i \in 1..Len(ops) : ops[i] = SurfaceOp("removeSeries", "rsi_rsi_14")

(* C38: for every request at most one token refresh and at most one replay *)
(* are made; when the replayed request fails, or the refresh call fails,   *)
(* the request is rejected and no refresh or replay is added; and a        *)
(* refresh that fails leaves no access token stored.                       *)
C38_OneRefreshOneReplay ==
    /\ [](\A r \in 1..MaxRequests :
              aRequests[r].refreshes <= 1 /\ aRequests[r].replays <= 1)
    /\ [][\A r \in 1..MaxRequests :
            /\ ((aRequests[r].phase = "replayed" /\ aRequests'[r] # aRequests[r])
                   => (/\ aRequests'[r].phase \in {"resolved", "rejected"}
                       /\ aRequests'[r].refreshes = aRequests[r].refreshes
                       /\ aRequests'[r].replays = aRequests[r].replays))
            /\ ((aRequests[r].phase = "refreshing" /\ aRequests'[r] # aRequests[r])
                   => \/ /\ aRequests'[r].phase = "replayed"
                         /\ aRequests'[r].replays = 1
                         /\ aRequests'[r].refreshes = 1
                      \/ /\ aRequests'[r].phase = "rejected"
                         /\ aRequests'[r].replays = 0
                         /\ aRequests'[r].refreshes = 1
                         /\ aAccessToken' = "none")]_vars

(* A request was answered 401, the token was refreshed, the request was    *)
(* replayed and answered 401 again: it is rejected after one refresh and   *)
(* one replay, and the refreshed token is still stored.                    *)
C38_ReplayRejected ==
    \E r \in 1..MaxRequests :
        /\ aRequests[r].phase = "rejected"
        /\ aRequests[r].retry
        /\ aRequests[r].refreshes = 1
        /\ aRequests[r].replays = 1
        /\ aAccessToken = "fresh"

=============================================================================
